---------------------------- MODULE Spec2Model ----------------------------
(***************************************************************************)
(* A model of osbs/tekton.py: the Openshift client (authentication, the   *)
(* resource watch loop) and the PipelineRun / TaskRun / Pod operations     *)
(* built on it.                                                            *)
(*                                                                         *)
(* Each part of the program has its own specification over the same        *)
(* variables:                                                              *)
(*   SpecWatch     Openshift.watch_resource against a cluster that changes *)
(*   SpecStart     PipelineRun/TaskRun.wait_for_start consuming a watch    *)
(*   SpecWatchedStart  PipelineRun.wait_for_start driving watch_resource   *)
(*                 on a run that resolves on the cluster                   *)
(*   SpecTaskRuns  PipelineRun.wait_for_taskruns consuming a watch         *)
(*   SpecFailed    PipelineRun.any_task_failed over one snapshot           *)
(*   SpecPatch     cancel_pipeline_run / update_annotations under the      *)
(*                 conflict-retry policy, with concurrent writers          *)
(*   SpecPatchCalls  the same, called repeatedly on one PipelineRun        *)
(*   SpecOpenshift construction of Openshift, its requests with the token  *)
(*                 exchange, and PipelineRun.start_pipeline_run            *)
(*   SpecStream    Pod._stream_logs for one container                      *)
(*   SpecStreamLive  Pod._stream_logs run to its end, every connection     *)
(*                 being closed at some time                               *)
(*   SpecLogs      PipelineRun._get_logs_stream merging task-run logs      *)
(*   SpecError     PipelineRun.get_error_message over one snapshot         *)
(*   SpecQuery     has_succeeded / has_not_finished / was_cancelled        *)
(*                 reading a run that changes on the cluster               *)
(*   SpecPod       Pod._get_logs_stream: wait_for_start, then the logs of  *)
(*                 the containers                                          *)
(*   SpecFinish    PipelineRun.wait_for_finish polling has_not_finished    *)
(***************************************************************************)
EXTENDS Integers, Sequences, FiniteSets, TLC

\* ------------------------------------------------------------------ bounds
\* lines received over the whole watch, all connections together
MaxEvents == 2
\* the cluster's resource version runs from 0 to MaxVersion
MaxVersion == 1
\* snapshots one wait_for_start or wait_for_taskruns call consumes
MaxWatched == 2
\* task runs a pipeline run can have; they are named 1..MaxTaskRuns
MaxTaskRuns == 2

\* --------------------------------------------------------------- constants
WATCH_RETRY_SECS == 5
WATCH_RETRY == 20
MAX_BAD_RESPONSES == 20

VARIABLES
    \* ---- Openshift.watch_resource
    pc,             \* position of the generator
    attempts,       \* iterations of "for _ in range(WATCH_RETRY)" started
    bad_responses,  \* the local counter of the same name
    slept,          \* seconds spent in log_and_sleep
    cluster,        \* resource version of the watched object on the cluster
    events,         \* lines received so far
    line,           \* the line whose fresh copy is being fetched
    out,            \* what the generator has yielded, in order
    error,          \* the exception that left the generator, if any
    last,           \* what the last step did
    \* ---- PipelineRun.wait_for_start / TaskRun.wait_for_start
    ws_kind,        \* resource_type of the watch: "pipelineruns" or "taskruns"
    ws_pc,          \* position of wait_for_start
    ws_seen,        \* the snapshots the watch has yielded to it, in order
    ws_result,      \* the snapshot it returned
    \* ---- PipelineRun.wait_for_taskruns
    tr_pc,              \* position of the generator
    watched_task_runs,  \* the local set of the same name
    tr_seen,            \* the snapshots the watch has yielded to it, in order
    tr_batches,         \* the batches it has yielded, with the snapshot of each
    \* ---- PipelineRun.any_task_failed
    af_pc,          \* "call" before the call, "done" after
    af_data,        \* self.data: the snapshot the call reads
    af_result,      \* what the call returned
    \* ---- PipelineRun.cancel_pipeline_run / update_annotations
    pw_op,       \* the call: "cancel" or "annotate"
    pw_pc,       \* "call" before an attempt, "backoff" between two, "done"
    pw_exists,   \* whether the pipeline run exists on the cluster
    pw_busy,     \* whether a concurrent writer makes a patch conflict
    pw_patches,  \* the status codes the patches were answered with
    pw_retries,  \* attempts repeated by retry_on_conflict
    pw_slept,    \* seconds the retry policy has slept
    pw_result,   \* what the call returned or raised
    pw_minimal_data,  \* self.minimal_data
    pw_annotations,   \* the argument of update_annotations
    pw_sent,          \* the patch bodies handed to self.os.patch, with the call of each
    pw_calls,         \* calls made on the PipelineRun before this one
    \* ---- Openshift: construction, _request_args, get_oauth_token; start_pipeline_run
    os_cfg,       \* the arguments Openshift was constructed with
    os_use_auth,  \* self.use_auth
    os_token,     \* self.token: "None", the empty string or a token
    os_sent,      \* the HTTP requests handed to the session, in order
    os_result,    \* what the last call returned or raised
    os_last,      \* the last call and what its token exchange was answered
    \* ---- Pod._stream_logs, for one container
    sl_pc,        \* position of the generator
    sl_elapsed,   \* time.time() - connected, in ticks
    sl_carried,   \* ticks between the last line and the current GET
    sl_since,     \* kwargs['sinceSeconds'], or "unset"
    sl_requests,  \* the sinceSeconds of each GET made, in order
    sl_yielded,   \* lines yielded
    sl_last,      \* the last step, with the idle time of a disconnect
    \* ---- PipelineRun._get_logs_stream
    lg_pc,               \* position of the generator
    lg_start,            \* how wait_for_start ended
    lg_pending,          \* the batches wait_for_taskruns has still to yield
    lg_streams,          \* the lines each task run's get_logs has still to yield
    steaming_task_runs,  \* the local dict of the same name, in insertion order
    tasks,               \* what is left of the list the for loop runs over
    lg_out,              \* the pairs yielded, in order
    \* ---- PipelineRun.get_error_message
    em_pc,      \* "call" before the call, "done" after
    em_data,    \* self.data: what get_info returns
    em_result,  \* what the call returned
    \* ---- PipelineRun.has_succeeded / has_not_finished / was_cancelled
    cq_cluster,  \* the pipeline run as it is on the cluster
    cq_history,  \* what it has been on the cluster since the call began
    cq_op,       \* the method called
    cq_pc,       \* the read the call makes next, or "done"
    cq_reads,    \* what self.data returned during the call, in order
    cq_result,   \* what the call returned: "True" or "False"
    \* ---- the run that wait_for_start watches, on the cluster
    run_history,  \* its document at each resource version
    \* ---- Pod.get_logs(follow/wait): _get_logs_stream
    pod_pc,          \* "waiting" in wait_for_start, "streaming", "done" or "raised"
    pod_containers,  \* len(self.containers); the containers are 1..pod_containers
    pod_phases,      \* status.phase of the pods the watch yielded, in order
    pod_container,   \* the container whose _stream_logs is running, 0 before the first
    pod_conn,        \* whether its log connection is open
    pod_log,         \* the log GETs made and the lines yielded, in order
    pod_kwargs,      \* kwargs of the running _stream_logs: <<sinceSeconds>>, or <<>> without
    pod_gets,        \* container and sinceSeconds of each log GET, in order
    \* ---- PipelineRun.wait_for_finish
    wf_pc,     \* "polling" in the for loop, "returned" or "raised"
    wf_polls,  \* passes of the for loop made
    wf_slept,  \* seconds slept
    wf_last,   \* what self.data returned when it was last read
    wf_exit    \* how the loop was left: "break" or "exhausted"

watchVars == <<pc, attempts, bad_responses, slept, cluster, events, line, out,
               error, last>>

startVars == <<ws_kind, ws_pc, ws_seen, ws_result>>

taskRunsVars == <<tr_pc, watched_task_runs, tr_seen, tr_batches>>

failedVars == <<af_pc, af_data, af_result>>

patchVars == <<pw_op, pw_pc, pw_exists, pw_busy, pw_patches, pw_retries,
               pw_slept, pw_result, pw_minimal_data, pw_annotations, pw_sent,
               pw_calls>>

openshiftVars == <<os_cfg, os_use_auth, os_token, os_sent, os_result,
                   os_last>>

streamVars == <<sl_pc, sl_elapsed, sl_carried, sl_since, sl_requests,
                sl_yielded, sl_last>>

logsVars == <<lg_pc, lg_start, lg_pending, lg_streams, steaming_task_runs,
              tasks, lg_out>>

errorVars == <<em_pc, em_data, em_result>>

queryVars == <<cq_cluster, cq_history, cq_op, cq_pc, cq_reads, cq_result>>

clusterVars == <<run_history>>

podVars == <<pod_pc, pod_containers, pod_phases, pod_container, pod_conn,
             pod_log, pod_kwargs, pod_gets>>

finishVars == <<wf_pc, wf_polls, wf_slept, wf_last, wf_exit>>

vars == <<watchVars, startVars, taskRunsVars, failedVars, patchVars,
          openshiftVars, streamVars, logsVars, errorVars, queryVars,
          clusterVars, podVars, finishVars>>

\* what each part of the program leaves alone
OutsideWatch == <<startVars, taskRunsVars, failedVars, patchVars,
                  openshiftVars, streamVars, logsVars, errorVars, queryVars,
                  clusterVars, podVars, finishVars>>

OutsideStart == <<watchVars, taskRunsVars, failedVars, patchVars,
                  openshiftVars, streamVars, logsVars, errorVars, queryVars,
                  clusterVars, podVars, finishVars>>

OutsideTaskRuns == <<watchVars, startVars, failedVars, patchVars,
                     openshiftVars, streamVars, logsVars, errorVars,
                     queryVars, clusterVars, podVars, finishVars>>

OutsideFailed == <<watchVars, startVars, taskRunsVars, patchVars,
                   openshiftVars, streamVars, logsVars, errorVars, queryVars,
                   clusterVars, podVars, finishVars>>

OutsidePatch == <<watchVars, startVars, taskRunsVars, failedVars,
                  openshiftVars, streamVars, logsVars, errorVars, queryVars,
                  clusterVars, podVars, finishVars>>

OutsideOpenshift == <<watchVars, startVars, taskRunsVars, failedVars,
                      patchVars, streamVars, logsVars, errorVars, queryVars,
                      clusterVars, podVars, finishVars>>

OutsideStream == <<watchVars, startVars, taskRunsVars, failedVars, patchVars,
                   openshiftVars, logsVars, errorVars, queryVars,
                   clusterVars, podVars, finishVars>>

OutsideLogs == <<watchVars, startVars, taskRunsVars, failedVars, patchVars,
                 openshiftVars, streamVars, errorVars, queryVars,
                 clusterVars, podVars, finishVars>>

OutsideError == <<watchVars, startVars, taskRunsVars, failedVars, patchVars,
                  openshiftVars, streamVars, logsVars, queryVars,
                  clusterVars, podVars, finishVars>>

OutsideQuery == <<watchVars, startVars, taskRunsVars, failedVars, patchVars,
                  openshiftVars, streamVars, logsVars, errorVars,
                  clusterVars, podVars, finishVars>>

OutsidePod == <<watchVars, startVars, taskRunsVars, failedVars, patchVars,
                openshiftVars, streamVars, logsVars, errorVars, queryVars,
                clusterVars, finishVars>>

OutsideFinish == <<watchVars, startVars, taskRunsVars, failedVars, patchVars,
                   openshiftVars, streamVars, logsVars, errorVars, queryVars,
                   clusterVars, podVars>>

\* ------------------------------------------------------------- exceptions
NoExc == [cls |-> "none", cause |-> "none"]

\* OsbsResponseException(message, status_code): raised by check_response
ResponseExc == [cls |-> "OsbsResponseException", cause |-> "none"]

\* what self.get() raises when the transport fails: the requests exception,
\* bare or wrapped as the cause of an OsbsException
TransportExc ==
    { [cls |-> "OsbsException", cause |-> "ConnectionError"],
      [cls |-> "OsbsException", cause |-> "Timeout"],
      [cls |-> "ConnectionError", cause |-> "none"],
      [cls |-> "Timeout", cause |-> "none"] }

\* an OsbsException that is no transport failure (OsbsAuthException from
\* _request_args, or a wrapped error of another kind)
OtherOsbsExc == [cls |-> "OsbsException", cause |-> "other"]

\* exceptions no except clause of watch_resource names
TypeErrorExc == [cls |-> "TypeError", cause |-> "none"]
ValueErrorExc == [cls |-> "ValueError", cause |-> "none"]

\* HTTP status codes the cluster answers with
StatusCodes == {200, 201, 404, 500}

check_response(status) ==
    IF status \in {200, 201} THEN NoExc ELSE ResponseExc

\* ------------------------------------------------------------ watch lines
\* A received line: bytes that are no JSON, JSON that is no container (null,
\* a number, true/false), or a JSON container that has or lacks the members
\* "object" and "type"; ver is the version of the object in the payload.
NoLine == [json |-> "none", hasObject |-> FALSE, hasType |-> FALSE,
           ver |-> 0, idx |-> 0, recvAt |-> 0]

Lines(v) ==
    { [json |-> "invalid", hasObject |-> FALSE, hasType |-> FALSE, ver |-> 0],
      [json |-> "scalar", hasObject |-> FALSE, hasType |-> FALSE, ver |-> 0] }
    \cup [json : {"container"}, hasObject : {FALSE}, hasType : BOOLEAN, ver : {0}]
    \cup [json : {"container"}, hasObject : {TRUE}, hasType : BOOLEAN, ver : 0..v]

\* lines 322-333: the outcome of decoding and checking one line
DecodeLine(l) ==
    IF l.json = "invalid" THEN "skip"               \* ValueError: continue
    ELSE IF l.json = "scalar" THEN "TypeError"      \* 'object' not in j
    ELSE IF ~l.hasObject THEN "skip"
    ELSE IF ~l.hasType THEN "skip"
    ELSE "fresh"

\* lines 341-343: what is yielded for an event is the body of the fresh GET
YieldPayload(l, now) == [from |-> "event", ver |-> l.ver]

FreshSnapshot(l, now) == [from |-> "get", ver |-> now]

HandleExceptionOr(exc, bad) ==
    IF exc.cls = "OsbsResponseException"
      THEN [bad |-> bad + 1, raised |-> bad + 1 > MAX_BAD_RESPONSES]
    ELSE IF exc.cls = "OsbsException"
      THEN [bad |-> bad,
            raised |-> (exc.cause # "ConnectionError" \/ exc.cause # "Timeout")]
    ELSE IF exc.cls = "ConnectionError" THEN [bad |-> bad, raised |-> FALSE]
    ELSE IF exc.cls = "Timeout" THEN [bad |-> bad, raised |-> FALSE]
    ELSE [bad |-> bad, raised |-> TRUE]

HandleExceptionCountsTransport(exc, bad) ==
    IF exc.cls = "OsbsResponseException"
      THEN [bad |-> bad + 1, raised |-> bad + 1 > MAX_BAD_RESPONSES]
    ELSE IF exc.cls = "OsbsException"
      THEN [bad |-> bad,
            raised |-> (exc.cause # "ConnectionError" /\ exc.cause # "Timeout")]
    ELSE IF exc.cls = "ConnectionError"
      THEN [bad |-> bad + 1, raised |-> FALSE]
    ELSE IF exc.cls = "Timeout" THEN [bad |-> bad + 1, raised |-> FALSE]
    ELSE [bad |-> bad, raised |-> TRUE]

\* lines 346-358: the except clauses, in order
HandleException(exc, bad) ==
    IF exc.cls = "OsbsResponseException"
      THEN [bad |-> bad + 1, raised |-> bad + 1 > MAX_BAD_RESPONSES]
    ELSE IF exc.cls = "OsbsException"
      THEN [bad |-> bad,
            raised |-> (exc.cause # "ConnectionError" /\ exc.cause # "Timeout")]
    ELSE IF exc.cls = "ConnectionError" THEN [bad |-> bad, raised |-> FALSE]
    ELSE IF exc.cls = "Timeout" THEN [bad |-> bad, raised |-> FALSE]
    ELSE [bad |-> bad, raised |-> TRUE]

AfterAttemptOneMore(att) == IF att <= WATCH_RETRY THEN "connect" ELSE "done"

AfterAttemptRaises(att) == IF att < WATCH_RETRY THEN "connect" ELSE "raised"

\* line 314: the loop goes on while range(WATCH_RETRY) has values left
AfterAttempt(att) == IF att < WATCH_RETRY THEN "connect" ELSE "done"

\* The end of one attempt: the exception (or none, when iter_lines ended) goes
\* through the except clauses; unless it leaves the generator, log_and_sleep
\* runs and the loop takes its next value.
EndAttempt(exc, op, att, l) ==
    LET h == IF exc = NoExc THEN [bad |-> bad_responses, raised |-> FALSE]
             ELSE HandleException(exc, bad_responses)
    IN  /\ bad_responses' = h.bad
        /\ IF h.raised
             THEN /\ pc' = "raised"
                  /\ error' = exc
                  /\ slept' = slept
             ELSE /\ pc' = AfterAttempt(att)
                  /\ error' = error
                  /\ slept' = slept + WATCH_RETRY_SECS
        /\ last' = [op |-> op, exc |-> exc, line |-> l]

\* ------------------------------------------------------------- snapshots
NoSnapshot == [conds |-> "none", status |-> "none", reason |-> "none"]

\* the parts that are not running
WatchIdle ==
    /\ pc = "idle"
    /\ attempts = 0
    /\ bad_responses = 0
    /\ slept = 0
    /\ cluster = 0
    /\ events = 0
    /\ line = NoLine
    /\ out = <<>>
    /\ error = NoExc
    /\ last = [op |-> "init", exc |-> NoExc, line |-> NoLine]

StartIdle ==
    /\ ws_kind = "none"
    /\ ws_pc = "idle"
    /\ ws_seen = <<>>
    /\ ws_result = NoSnapshot

TaskRunsIdle ==
    /\ tr_pc = "idle"
    /\ watched_task_runs = {}
    /\ tr_seen = <<>>
    /\ tr_batches = <<>>

FailedIdle ==
    /\ af_pc = "idle"
    /\ af_data = [listed |-> FALSE, taskRuns |-> <<>>]
    /\ af_result = "none"

NoResult == [outcome |-> "none", cls |-> "none", status_code |-> 0,
             msg |-> "none"]

PatchIdle ==
    /\ pw_op = "none"
    /\ pw_pc = "idle"
    /\ pw_exists = FALSE
    /\ pw_busy = FALSE
    /\ pw_patches = <<>>
    /\ pw_retries = 0
    /\ pw_slept = 0
    /\ pw_result = NoResult
    /\ pw_minimal_data = [apiVersion |-> "none", kind |-> "none",
                          name |-> "none", spec_status |-> "absent",
                          annotations |-> "absent"]
    /\ pw_annotations = "none"
    /\ pw_sent = <<>>
    /\ pw_calls = 0

NoConfig == [token |-> "None", userpass |-> FALSE, use_kerberos |-> "no",
             use_auth |-> "None", sa_file |-> "unreadable"]

OpenshiftIdle ==
    /\ os_cfg = NoConfig
    /\ os_use_auth = FALSE
    /\ os_token = "None"
    /\ os_sent = <<>>
    /\ os_result = NoResult
    /\ os_last = [op |-> "none", input |-> "none", exchange |-> "none"]

StreamIdle ==
    /\ sl_pc = "idle"
    /\ sl_elapsed = 0
    /\ sl_carried = 0
    /\ sl_since = "unset"
    /\ sl_requests = <<>>
    /\ sl_yielded = 0
    /\ sl_last = [op |-> "none", idle |-> 0, cause |-> "none"]

LogsIdle ==
    /\ lg_pc = "idle"
    /\ lg_start = "none"
    /\ lg_pending = <<>>
    /\ lg_streams = <<>>
    /\ steaming_task_runs = <<>>
    /\ tasks = <<>>
    /\ lg_out = <<>>

NoRun == [exists |-> FALSE, plugins_metadata |-> FALSE,
          plugin_errors |-> <<>>, listed |-> FALSE, ascending |-> TRUE,
          taskRuns |-> <<>>]

NoMessage == [none |-> TRUE, err_message |-> <<>>]

ErrorIdle ==
    /\ em_pc = "idle"
    /\ em_data = NoRun
    /\ em_result = NoMessage

NoDoc == [exists |-> FALSE, status |-> "none", reason |-> "none"]

QueryIdle ==
    /\ cq_cluster = NoDoc
    /\ cq_history = <<>>
    /\ cq_op = "none"
    /\ cq_pc = "idle"
    /\ cq_reads = <<>>
    /\ cq_result = "none"

NoHistory == [v \in 0..MaxVersion |-> NoSnapshot]

WatchedStartIdle == run_history = NoHistory

PodIdle ==
    /\ pod_pc = "idle"
    /\ pod_containers = 0
    /\ pod_phases = <<>>
    /\ pod_container = 0
    /\ pod_conn = "closed"
    /\ pod_log = <<>>
    /\ pod_kwargs = <<>>
    /\ pod_gets = <<>>

FinishIdle ==
    /\ wf_pc = "idle"
    /\ wf_polls = 0
    /\ wf_slept = 0
    /\ wf_last = NoDoc
    /\ wf_exit = "none"

\* ----------------------------------------------- watch_resource: actions
WatchInit ==
    /\ StartIdle /\ TaskRunsIdle /\ FailedIdle /\ PatchIdle /\ OpenshiftIdle
    /\ StreamIdle /\ LogsIdle /\ ErrorIdle /\ QueryIdle /\ WatchedStartIdle
    /\ PodIdle /\ FinishIdle
    /\ pc = AfterAttempt(0)
    /\ attempts = 0
    /\ bad_responses = 0
    /\ slept = 0
    /\ cluster = 0
    /\ events = 0
    /\ line = NoLine
    /\ out = <<>>
    /\ error = NoExc
    /\ last = [op |-> "init", exc |-> NoExc, line |-> NoLine]

\* lines 314-319: the streamed GET of the watch URL and check_response
Connect ==
    /\ pc = "connect"
    /\ attempts' = attempts + 1
    /\ \/ \E exc \in TransportExc \cup {OtherOsbsExc} :
            EndAttempt(exc, "connect", attempts + 1, NoLine)
       \/ \E status \in StatusCodes :
            IF check_response(status) = NoExc
              THEN /\ pc' = "reading"
                   /\ last' = [op |-> "connect", exc |-> NoExc, line |-> NoLine]
                   /\ UNCHANGED <<bad_responses, slept, error>>
              ELSE EndAttempt(check_response(status), "connect", attempts + 1, NoLine)
    /\ UNCHANGED <<cluster, events, line, out>>
    /\ UNCHANGED OutsideWatch

\* lines 321-333: iter_lines gives the next line, which is decoded and checked
Receive ==
    /\ pc = "reading"
    /\ events < MaxEvents
    /\ \E l \in Lines(cluster) :
         LET got == [json |-> l.json, hasObject |-> l.hasObject,
                     hasType |-> l.hasType, ver |-> l.ver,
                     idx |-> events + 1, recvAt |-> cluster] IN
         /\ events' = events + 1
         /\ CASE DecodeLine(l) = "skip" ->
                   /\ pc' = "reading"
                   /\ last' = [op |-> "line", exc |-> NoExc, line |-> got]
                   /\ UNCHANGED <<line, bad_responses, slept, error>>
              [] DecodeLine(l) = "fresh" ->
                   /\ pc' = "refetch"
                   /\ line' = got
                   /\ last' = [op |-> "line", exc |-> NoExc, line |-> got]
                   /\ UNCHANGED <<bad_responses, slept, error>>
              [] OTHER ->
                   /\ EndAttempt(TypeErrorExc, "line", attempts, got)
                   /\ line' = line
    /\ UNCHANGED <<attempts, cluster, out>>
    /\ UNCHANGED OutsideWatch

\* line 321: iter_lines ends (the server closed the stream) or the transport
\* fails while reading
StreamEnd ==
    /\ pc = "reading"
    /\ \E exc \in TransportExc \cup {NoExc} : EndAttempt(exc, "read", attempts, NoLine)
    /\ UNCHANGED <<attempts, cluster, events, line, out>>
    /\ UNCHANGED OutsideWatch

\* lines 341-343: the non-streamed GET of the object, check_response, json()
\* and the yield
Refetch ==
    /\ pc = "refetch"
    /\ \/ \E exc \in TransportExc \cup {OtherOsbsExc, ValueErrorExc} :
            /\ EndAttempt(exc, "refetch", attempts, NoLine)
            /\ out' = out
       \/ \E status \in StatusCodes :
            IF check_response(status) = NoExc
              THEN /\ out' = Append(out, [event |-> line.idx,
                                           read |-> events,
                                           recvAt |-> line.recvAt,
                                           val |-> FreshSnapshot(line, cluster)])
                   /\ pc' = "yielded"
                   /\ last' = [op |-> "refetch", exc |-> NoExc, line |-> NoLine]
                   /\ UNCHANGED <<bad_responses, slept, error>>
              ELSE /\ EndAttempt(check_response(status), "refetch", attempts, NoLine)
                   /\ out' = out
    /\ line' = NoLine
    /\ UNCHANGED <<attempts, cluster, events>>
    /\ UNCHANGED OutsideWatch

\* the consumer asks for the next value: the generator goes on after the yield
Resume ==
    /\ pc = "yielded"
    /\ pc' = "reading"
    /\ last' = [op |-> "resume", exc |-> NoExc, line |-> NoLine]
    /\ UNCHANGED <<attempts, bad_responses, slept, cluster, events, line, out, error>>
    /\ UNCHANGED OutsideWatch

\* the watched object changes on the cluster
ClusterChange ==
    /\ pc \notin {"done", "raised"}
    /\ cluster < MaxVersion
    /\ cluster' = cluster + 1
    /\ last' = [op |-> "cluster", exc |-> NoExc, line |-> NoLine]
    /\ UNCHANGED <<pc, attempts, bad_responses, slept, events, line, out, error>>
    /\ UNCHANGED OutsideWatch

WatchNext ==
    \/ Connect
    \/ Receive
    \/ StreamEnd
    \/ Refetch
    \/ Resume
    \/ ClusterChange

SpecWatch == WatchInit /\ [][WatchNext]_vars

\* ------------------------------------------------- watch_resource: claims
\* a line that is a watch event: JSON with both "type" and "object"
IsValidEvent(l) == l.json = "container" /\ l.hasObject /\ l.hasType

Terminated == pc \in {"done", "raised"}

\* every attempt of the loop has been made and has ended in log_and_sleep
Exhausted ==
    /\ Terminated
    /\ attempts = WATCH_RETRY
    /\ slept = WATCH_RETRY * WATCH_RETRY_SECS

\* C1: within a connection, a received line that is a valid event leads to
\* the fresh GET whose success yields exactly one snapshot, and a line that
\* is not valid JSON or lacks "type" or "object" yields nothing and leaves
\* the connection open, so that the next line is read.
C1_OneSnapshotPerValidLine ==
    [][ /\ (last'.op = "line") =>
              IF IsValidEvent(last'.line)
                THEN pc' = "refetch" /\ out' = out
                ELSE pc' = "reading" /\ out' = out
        /\ (last'.op = "refetch" /\ last'.exc = NoExc) =>
              Len(out') = Len(out) + 1
      ]_vars

\* C2: every yielded value is the body of the GET made for its event, after
\* the event's line was received and before any later line was read; it is
\* never older than the cluster was when the event was received, and values
\* are yielded in the order of their events.
C2_FreshSnapshotPerEvent ==
    \A i \in 1..Len(out) :
        /\ out[i].val.from = "get"
        /\ out[i].val.ver >= out[i].recvAt
        /\ out[i].read = out[i].event
        /\ i > 1 => out[i].event > out[i - 1].event

\* two snapshots were yielded, the second for an event that was received
\* before the object changed once more
C2_Witness ==
    /\ Len(out) = 2
    /\ out[2].event > out[1].event
    /\ out[2].val.ver > out[2].recvAt

\* C3: a step in which the transport fails (opening the stream, reading
\* lines or re-fetching) raises nothing, leaves bad_responses as it was, and
\* sleeps; while the loop has attempts left, the next step is a new connect.
C3_TransportErrorsAbsorbed ==
    [][ (last'.exc \in TransportExc) =>
            /\ pc' # "raised"
            /\ error' = NoExc
            /\ bad_responses' = bad_responses
            /\ slept' = slept + WATCH_RETRY_SECS
            /\ (attempts' < WATCH_RETRY => pc' = "connect")
      ]_vars

\* the transport failed during a re-fetch, after an upstream error had been
\* counted, and the loop is about to connect again
C3_Witness ==
    /\ last.op = "refetch"
    /\ last.exc \in TransportExc
    /\ bad_responses > 0
    /\ pc = "connect"

\* C4: upstream error responses are counted and a run of them longer than
\* the tolerance is raised to the consumer: a watch all of whose attempts
\* were answered with an upstream error does not end silently.
C4_PersistentUpstreamErrorIsRaised ==
    (Terminated /\ attempts > 0 /\ bad_responses = attempts) =>
        (pc = "raised" /\ error = ResponseExc)

\* C5: at most WATCH_RETRY attempts are made, whatever ended each of them;
\* when they are used up without a hard failure the generator just ends:
\* nothing is raised, and nothing more is yielded.
C5_BoundedAttempts ==
    /\ [](attempts <= WATCH_RETRY)
    /\ []((pc = "done") =>
            /\ attempts = WATCH_RETRY
            /\ slept = WATCH_RETRY * WATCH_RETRY_SECS
            /\ error = NoExc)
    /\ [][ (pc = "done") => (pc' = "done" /\ out' = out) ]_vars

\* the loop ran out after attempts that ended in upstream errors, in
\* transport errors and, the last one, in a clean end of the stream
C5_Witness ==
    /\ pc = "done"
    /\ last.op = "read"
    /\ last.exc = NoExc
    /\ bad_responses > 0
    /\ bad_responses < attempts - 1
    /\ Len(out) > 0

\* C6 as stated: once the attempts are used up, the watch fails with a
\* WatchExhausted error.
C6_ExhaustionRaisesWatchExhausted ==
    Exhausted => (pc = "raised" /\ error.cls = "WatchExhausted")

\* C6 amended: once the attempts are used up the generator ends as any
\* finished sequence does, raising nothing; the only exceptions that ever
\* leave it are those of an attempt that no except clause absorbs.
C6_ExhaustionEndsQuietly ==
    /\ Exhausted => (pc = "done" /\ error = NoExc)
    /\ pc = "raised" =>
          /\ error \in {ResponseExc, OtherOsbsExc, TypeErrorExc, ValueErrorExc}
          /\ slept < WATCH_RETRY * WATCH_RETRY_SECS

\* the attempts are used up, the last of them by a transport error
C6_Witness ==
    /\ Exhausted
    /\ last.exc \in TransportExc
    /\ last.op = "connect"

\* C36: bad_responses goes up by one at a time, only when an attempt ends
\* with an OsbsResponseException, and never at a failure of the transport;
\* the attempt in which it went up is over, so that it goes up at most once
\* in an attempt. It is therefore never more than the attempts made, which
\* are at most WATCH_RETRY, and never more than MAX_BAD_RESPONSES.
C36_BadResponsesAtMostAttempts ==
    /\ [](/\ bad_responses <= attempts
          /\ attempts <= WATCH_RETRY
          /\ bad_responses <= MAX_BAD_RESPONSES)
    /\ [][/\ bad_responses' \in {bad_responses, bad_responses + 1}
          /\ bad_responses' = bad_responses + 1
               => /\ last'.exc = ResponseExc
                  /\ pc \in {"connect", "refetch"}
                  /\ pc' \in {"connect", "done"}
                  /\ bad_responses' <= attempts'
          /\ last'.exc \in TransportExc
               => bad_responses' = bad_responses]_vars

\* every attempt was answered with an error response
C36_Witness ==
    /\ pc = "done"
    /\ attempts = WATCH_RETRY
    /\ bad_responses = MAX_BAD_RESPONSES

\* ------------------------------------------------------- wait_for_start
\* What the watch yields to wait_for_start: a document in which a key on the
\* way to status.conditions[0].status and .reason is missing ("absent"), one
\* with an empty condition list ("empty"), or one whose first condition
\* carries a status and a reason.
Reasons ==
    {"Running", "Started", "PipelineRunCancelled", "Pending",
     "TaskRunCancelled", "Succeeded", "Failed"}

StartSnapshots ==
    { [conds |-> "absent", status |-> "none", reason |-> "none"],
      [conds |-> "empty", status |-> "none", reason |-> "none"] }
    \cup [conds : {"present"}, status : {"True", "False", "Unknown"},
          reason : Reasons]

IsStartedTrueOnly(status, reason) ==
    status = "True" \/ (status = "Unknown" /\ reason = "Running")

\* lines 693 and 826: the run finished or failed, or is still running
IsStarted(status, reason) ==
    status \in {"True", "False"} \/ (status = "Unknown" /\ reason = "Running")

\* lines 684-699 and 819-831: the body of the loop for one snapshot
StartStep(snap) ==
    IF snap.conds = "absent" THEN "continue"           \* KeyError
    ELSE IF snap.conds = "empty" THEN "IndexError"     \* conditions[0]
    ELSE IF IsStarted(snap.status, snap.reason) THEN "return"
    ELSE "continue"

StartInit ==
    /\ WatchIdle /\ TaskRunsIdle /\ FailedIdle /\ PatchIdle /\ OpenshiftIdle
    /\ StreamIdle /\ LogsIdle /\ ErrorIdle /\ QueryIdle /\ WatchedStartIdle
    /\ PodIdle /\ FinishIdle
    /\ ws_kind \in {"pipelineruns", "taskruns"}
    /\ ws_pc = "waiting"
    /\ ws_seen = <<>>
    /\ ws_result = NoSnapshot

\* the watch yields a snapshot and the body of the loop runs on it
StartConsume ==
    /\ ws_pc = "waiting"
    /\ Len(ws_seen) < MaxWatched
    /\ \E snap \in StartSnapshots :
         /\ ws_seen' = Append(ws_seen, snap)
         /\ ws_pc' = CASE StartStep(snap) = "return" -> "returned"
                       [] StartStep(snap) = "continue" -> "waiting"
                       [] OTHER -> "raised"
         /\ ws_result' = IF StartStep(snap) = "return" THEN snap ELSE ws_result
    /\ UNCHANGED ws_kind
    /\ UNCHANGED OutsideStart

\* the watch ends (the for loop is left and None is returned) or raises
StartWatchOver ==
    /\ ws_pc = "waiting"
    /\ \E how \in {"ended", "raised"} : ws_pc' = how
    /\ UNCHANGED <<ws_kind, ws_seen, ws_result>>
    /\ UNCHANGED OutsideStart

StartNext ==
    \/ StartConsume
    \/ StartWatchOver

SpecStart == StartInit /\ [][StartNext]_vars

\* ----------------------------------------------- wait_for_start: claims
\* a snapshot that shows the run resolved or running
ShowsStarted(snap) ==
    /\ snap.conds = "present"
    /\ \/ snap.status = "True"
       \/ snap.status = "False"
       \/ snap.status = "Unknown" /\ snap.reason = "Running"

\* C7: wait_for_start returns the first yielded snapshot whose first
\* condition is True, False or Unknown/Running, and no earlier one: every
\* snapshot before the returned one was skipped, and after a snapshot with
\* Unknown and another reason the wait goes on with nothing returned.
C7_ReturnsFirstStartedSnapshot ==
    /\ \A i \in 1..Len(ws_seen) :
          ShowsStarted(ws_seen[i]) =>
              /\ i = Len(ws_seen)
              /\ ws_pc = "returned"
              /\ ws_result = ws_seen[i]
    /\ ws_pc = "returned" =>
          Len(ws_seen) > 0 /\ ShowsStarted(ws_seen[Len(ws_seen)])
    /\ \A i \in 1..Len(ws_seen) :
          (ws_seen[i].status = "Unknown" /\ ws_seen[i].reason # "Running") =>
              /\ ws_result = NoSnapshot \/ i < Len(ws_seen)
              /\ i = Len(ws_seen) => ws_pc \in {"waiting", "ended", "raised"}

\* a failed run was returned after an Unknown/Started snapshot was skipped
C7_Witness ==
    /\ ws_pc = "returned"
    /\ Len(ws_seen) = 2
    /\ ws_seen[1].status = "Unknown" /\ ws_seen[1].reason = "Started"
    /\ ws_result.status = "False"

\* C22: a snapshot that wait_for_start consumes and whose status has no
\* condition list, or an empty one, is neither returned nor the end of the
\* call by an exception: the wait goes on with the next snapshot.
C22_NoConditionsMeansNotYetObserved ==
    [][(Len(ws_seen') = Len(ws_seen) + 1
          /\ ws_seen'[Len(ws_seen')].conds \in {"absent", "empty"})
         => /\ ws_pc' = "waiting"
            /\ ws_result' = ws_result]_vars

\* ------------------------------- wait_for_start driving watch_resource
\* connections of the watch that are followed here
MaxConnects == 2

\* The condition of the watched pipeline run at one resource version: not
\* yet started, running, or resolved.
RunStates ==
    { [conds |-> "present", status |-> "Unknown", reason |-> "Started"],
      [conds |-> "present", status |-> "Unknown", reason |-> "Running"],
      [conds |-> "present", status |-> "True", reason |-> "Succeeded"],
      [conds |-> "present", status |-> "False", reason |-> "Failed"] }

\* A resolved condition is final: later versions of the run carry it too.
RunHistories ==
    { h \in [0..MaxVersion -> RunStates] :
        \A v \in 0..MaxVersion - 1 :
           h[v].status # "Unknown" => h[v + 1] = h[v] }

WatchedStartInit ==
    /\ TaskRunsIdle /\ FailedIdle /\ PatchIdle /\ OpenshiftIdle
    /\ StreamIdle /\ LogsIdle /\ ErrorIdle /\ QueryIdle /\ PodIdle
    /\ FinishIdle
    /\ run_history \in RunHistories
    /\ pc = AfterAttempt(0)
    /\ attempts = 0
    /\ bad_responses = 0
    /\ slept = 0
    /\ cluster = 0
    /\ events = 0
    /\ line = NoLine
    /\ out = <<>>
    /\ error = NoExc
    /\ last = [op |-> "init", exc |-> NoExc, line |-> NoLine]
    /\ ws_kind = "pipelineruns"
    /\ ws_pc = "waiting"
    /\ ws_seen = <<>>
    /\ ws_result = NoSnapshot

\* line 343 and lines 684-699: the body of the fresh GET, which is the run as
\* it is on the cluster at that moment, goes through the body of the loop
WatchedConsume ==
    /\ pc = "yielded"
    /\ Len(ws_seen) < Len(out)
    /\ StartConsume
    /\ ws_seen' = Append(ws_seen, run_history[out[Len(out)].val.ver])

\* lines 678-683: the for loop asks the generator for its next value
WatchedResume ==
    /\ ws_pc = "waiting"
    /\ Len(ws_seen) = Len(out)
    /\ Resume

\* the generator runs while wait_for_start waits for its next value
WatchedStep ==
    /\ ws_pc = "waiting"
    /\ \/ attempts < MaxConnects /\ Connect
       \/ Receive
       \/ StreamEnd
       \/ Refetch

\* the generator ends or raises: wait_for_start returns None or raises too
WatchedOver ==
    /\ pc \in {"done", "raised"}
    /\ StartWatchOver
    /\ ws_pc' = IF pc = "done" THEN "ended" ELSE "raised"

\* the run changes on the cluster
WatchedRunChange ==
    /\ ws_pc = "waiting"
    /\ ClusterChange

WatchedStartNext ==
    \/ WatchedStep
    \/ WatchedConsume
    \/ WatchedResume
    \/ WatchedOver
    \/ WatchedRunChange

SpecWatchedStart == WatchedStartInit /\ [][WatchedStartNext]_vars

\* --------------------- wait_for_start driving watch_resource: claims
\* the run is resolved at resource version v
Resolved(v) == run_history[v].status \in {"True", "False"}

\* the step takes the snapshot last yielded through the body of the loop,
\* and wait_for_start returns it
ReturnsYielded ==
    /\ ws_pc' = "returned"
    /\ ws_result' = run_history[out[Len(out)].val.ver]
    /\ ws_result'.status \in {"True", "False"}

\* a yielded snapshot of an event that was received when the run was
\* resolved is returned by the step that consumes it, and the generator is
\* not resumed before
YieldedIsReturned ==
    (pc = "yielded" /\ Len(ws_seen) < Len(out)
       /\ Resolved(out[Len(out)].recvAt))
      => /\ pc' = "yielded"
         /\ ws_seen' # ws_seen => ReturnsYielded

TaskRunNames == 1..MaxTaskRuns

\* task_run_data['pipelineTaskName'] of the task run named n
PipelineTaskName(n) == <<"task", n>>

\* What the watch yields to wait_for_taskruns: status.taskRuns is missing
\* (listed is FALSE) or maps some task run names to their data; cond is the
\* status of status.conditions[0], "absent" when a key on the way to it is
\* missing and "empty" when the condition list is empty.
TaskRunsSnapshots ==
    [listed : {FALSE}, taskRuns : {{}},
     cond : {"absent", "empty", "True", "False", "Unknown"}]
    \cup [listed : {TRUE}, taskRuns : SUBSET TaskRunNames,
          cond : {"absent", "empty", "True", "False", "Unknown"}]

\* the keys of a dict of task runs in the order items() gives them
RECURSIVE Items(_)
Items(S) ==
    IF S = {} THEN <<>>
    ELSE LET n == CHOOSE x \in S : \A y \in S : x <= y
         IN  <<n>> \o Items(S \ {n})

RECURSIVE NewTaskRunsForgetful(_, _, _)
NewTaskRunsForgetful(items, watched, current) ==
    IF items = <<>> THEN [watched |-> watched, current |-> current]
    ELSE LET name == Head(items) IN
         IF name \notin watched
           THEN NewTaskRunsForgetful(Tail(items), watched,
                            Append(current, <<PipelineTaskName(name), name>>))
           ELSE NewTaskRunsForgetful(Tail(items), watched, current)

\* lines 723-727: the loop that collects the task runs not yet watched
RECURSIVE NewTaskRuns(_, _, _)
NewTaskRuns(items, watched, current) ==
    IF items = <<>> THEN [watched |-> watched, current |-> current]
    ELSE LET name == Head(items) IN
         IF name \notin watched
           THEN NewTaskRuns(Tail(items), watched \cup {name},
                            Append(current, <<PipelineTaskName(name), name>>))
           ELSE NewTaskRuns(Tail(items), watched, current)

\* lines 731-738: after the yield, whether the generator returns
AfterBatch(cond) ==
    IF cond = "absent" THEN "ended"                  \* KeyError: return
    ELSE IF cond = "empty" THEN "raised"             \* IndexError
    ELSE IF cond \in {"True", "False"} THEN "ended"
    ELSE "watching"

TaskRunsInit ==
    /\ WatchIdle /\ StartIdle /\ FailedIdle /\ PatchIdle /\ OpenshiftIdle
    /\ StreamIdle /\ LogsIdle /\ ErrorIdle /\ QueryIdle /\ WatchedStartIdle
    /\ PodIdle /\ FinishIdle
    /\ tr_pc = "watching"
    /\ watched_task_runs = {}
    /\ tr_seen = <<>>
    /\ tr_batches = <<>>

\* lines 710-729: the watch yields a snapshot; without status.taskRuns the
\* loop continues, otherwise the batch of new task runs is yielded
TaskRunsConsume ==
    /\ tr_pc = "watching"
    /\ Len(tr_seen) < MaxWatched
    /\ \E snap \in TaskRunsSnapshots :
         /\ tr_seen' = Append(tr_seen, snap)
         /\ IF ~snap.listed
              THEN UNCHANGED <<tr_pc, watched_task_runs, tr_batches>>
              ELSE LET new == NewTaskRuns(Items(snap.taskRuns),
                                          watched_task_runs, <<>>)
                   IN  /\ watched_task_runs' = new.watched
                       /\ tr_batches' = Append(tr_batches,
                                               [at |-> Len(tr_seen) + 1,
                                                batch |-> new.current])
                       /\ tr_pc' = "yielded"
    /\ UNCHANGED OutsideTaskRuns

\* lines 731-738: the consumer asks for the next batch
TaskRunsResume ==
    /\ tr_pc = "yielded"
    /\ tr_pc' = AfterBatch(tr_seen[Len(tr_seen)].cond)
    /\ UNCHANGED <<watched_task_runs, tr_seen, tr_batches>>
    /\ UNCHANGED OutsideTaskRuns

\* the watch ends or raises
TaskRunsWatchOver ==
    /\ tr_pc = "watching"
    /\ \E how \in {"ended", "raised"} : tr_pc' = how
    /\ UNCHANGED <<watched_task_runs, tr_seen, tr_batches>>
    /\ UNCHANGED OutsideTaskRuns

TaskRunsNext ==
    \/ TaskRunsConsume
    \/ TaskRunsResume
    \/ TaskRunsWatchOver

SpecTaskRuns == TaskRunsInit /\ [][TaskRunsNext]_vars

\* -------------------------------------------- wait_for_taskruns: claims
\* the snapshots consumed so far that list task run n
ListedIn(n) ==
    { i \in 1..Len(tr_seen) :
        tr_seen[i].listed /\ n \in tr_seen[i].taskRuns }

\* the places <<b, k>> at which task run n stands in a yielded batch
YieldedAt(n) ==
    { bk \in (1..Len(tr_batches)) \X (1..MaxTaskRuns) :
        /\ bk[2] <= Len(tr_batches[bk[1]].batch)
        /\ tr_batches[bk[1]].batch[bk[2]][2] = n }

\* C8: a task run name listed in any consumed snapshot is yielded in exactly
\* one batch, the batch of the first snapshot that lists it, with its
\* pipeline task name; no name is yielded twice, and none that was not
\* listed.
C8_EachTaskRunYieldedOnce ==
    \A n \in TaskRunNames :
        IF ListedIn(n) = {}
          THEN YieldedAt(n) = {}
          ELSE /\ Cardinality(YieldedAt(n)) = 1
               /\ \A bk \in YieldedAt(n) :
                    /\ \A i \in ListedIn(n) : tr_batches[bk[1]].at <= i
                    /\ tr_batches[bk[1]].at \in ListedIn(n)
                    /\ tr_batches[bk[1]].batch[bk[2]][1] = PipelineTaskName(n)

\* a task run listed in two snapshots, the second of them the resolved one,
\* while another task run first appears in that second snapshot
C8_Witness ==
    /\ tr_pc = "ended"
    /\ Len(tr_seen) = 2
    /\ tr_seen[2].cond = "True"
    /\ \E n \in TaskRunNames : ListedIn(n) = {1, 2}
    /\ \E n \in TaskRunNames : ListedIn(n) = {2}

\* C9: a consumed snapshot whose condition status is True or False, with
\* or without task runs, is the last one consumed.
C9_ResolvedSnapshotIsLast ==
    \A i \in 1..Len(tr_seen) :
        tr_seen[i].cond \in {"True", "False"} => i = Len(tr_seen)

\* C23: when the generator goes on after yielding the batch of a snapshot
\* that lists task runs, it ends only if the condition status of that
\* snapshot is True or False; for a snapshot without a condition list it
\* goes on watching.
C23_EndsOnlyWhenResolved ==
    [][(tr_pc = "yielded" /\ tr_seen[Len(tr_seen)].listed)
         => /\ tr_pc' = "ended"
                => tr_seen[Len(tr_seen)].cond \in {"True", "False"}
            /\ tr_seen[Len(tr_seen)].cond = "absent"
                => tr_pc' = "watching"]_vars

\* ------------------------------------------------------- any_task_failed
\* One entry of status.taskRuns: the status and reason of its first
\* condition, and status.completionTime: missing, null or a timestamp.
TaskRunData ==
    [status : {"True", "False", "Unknown"},
     reason : {"TaskRunCancelled", "Failed", "Succeeded"},
     completionTime : {"absent", "null", "2022-05-27T11:42:19Z"}]

RECURSIVE SeqsUpTo(_, _)
SeqsUpTo(S, n) ==
    IF n = 0 THEN {<<>>}
    ELSE LET shorter == SeqsUpTo(S, n - 1)
         IN  shorter \cup { Append(q, x) : q \in shorter, x \in S }

\* self.data of the pipeline run: status.taskRuns is missing (listed is
\* FALSE) or holds the task runs, here in the order of values()
FailedSnapshots ==
    {[listed |-> FALSE, taskRuns |-> <<>>]}
    \cup [listed : {TRUE}, taskRuns : SeqsUpTo(TaskRunData, MaxTaskRuns)]

\* line 613: task_run_status.get('completionTime')
GetCompletionTime(task_run) ==
    IF task_run.completionTime = "absent" THEN "None"
    ELSE IF task_run.completionTime = "null" THEN "None"
    ELSE task_run.completionTime

MatchStateNoTime(state_name, status, reason, has_completion_time) ==
    IF state_name = "failed"
      THEN status = "False" /\ reason # "TaskRunCancelled"
      ELSE reason = "TaskRunCancelled"

\* lines 589-591 and 602: the match_state of any_task_failed ("failed") and
\* of any_task_was_cancelled ("cancelled")
MatchState(state_name, status, reason, has_completion_time) ==
    IF state_name = "failed"
      THEN status = "False" /\ reason # "TaskRunCancelled" /\ has_completion_time
      ELSE reason = "TaskRunCancelled"

\* lines 609-622
matches_state(state_name, task_run) ==
    MatchState(state_name, task_run.status, task_run.reason,
               GetCompletionTime(task_run) # "None")

\* line 625: any() over the task runs
RECURSIVE AnyMatches(_, _)
AnyMatches(state_name, task_runs) ==
    IF task_runs = <<>> THEN FALSE
    ELSE IF matches_state(state_name, Head(task_runs)) THEN TRUE
    ELSE AnyMatches(state_name, Tail(task_runs))

\* lines 605-625: status.get('taskRuns', {}).values()
any_task_run_in_state(data, state_name) ==
    AnyMatches(state_name, IF data.listed THEN data.taskRuns ELSE <<>>)

\* lines 581-592
any_task_failed(data) == any_task_run_in_state(data, "failed")

FailedInit ==
    /\ WatchIdle /\ StartIdle /\ TaskRunsIdle /\ PatchIdle /\ OpenshiftIdle
    /\ StreamIdle /\ LogsIdle /\ ErrorIdle /\ QueryIdle /\ WatchedStartIdle
    /\ PodIdle /\ FinishIdle
    /\ af_pc = "call"
    /\ af_data \in FailedSnapshots
    /\ af_result = "none"

AnyTaskFailed ==
    /\ af_pc = "call"
    /\ af_result' = any_task_failed(af_data)
    /\ af_pc' = "done"
    /\ UNCHANGED af_data
    /\ UNCHANGED OutsideFailed

FailedNext == AnyTaskFailed

SpecFailed == FailedInit /\ [][FailedNext]_vars

\* ---------------------------------------------- any_task_failed: claims
\* C10: any_task_failed is true exactly when some task run of the snapshot
\* has status "False", a reason other than "TaskRunCancelled" and a
\* completion time that is there and not null.
C10_FailedNeedsCompletionTime ==
    af_pc = "done" =>
        (af_result = TRUE) =
            (\E i \in 1..Len(af_data.taskRuns) :
                /\ af_data.taskRuns[i].status = "False"
                /\ af_data.taskRuns[i].reason # "TaskRunCancelled"
                /\ af_data.taskRuns[i].completionTime \notin {"absent", "null"})

\* false for a snapshot whose two task runs have status False and reason
\* Failed, one without completionTime and one with a null completionTime
C10_Witness ==
    /\ af_pc = "done"
    /\ af_result = FALSE
    /\ Len(af_data.taskRuns) = 2
    /\ \A i \in 1..2 : /\ af_data.taskRuns[i].status = "False"
                       /\ af_data.taskRuns[i].reason = "Failed"
    /\ af_data.taskRuns[1].completionTime = "absent"
    /\ af_data.taskRuns[2].completionTime = "null"

\* ------------------------------ cancel_pipeline_run / update_annotations
\* number of retries on openshift conflict, and the seconds to wait before one
OS_CONFLICT_MAX_RETRIES == 8
OS_CONFLICT_WAIT == 5

\* a patch that got no answer: self.os.patch raised instead of returning
NoAnswer == 0

\* what the cluster answers a merge patch of the run with: not found when the
\* run does not exist, a conflict while a concurrent writer is at work,
\* otherwise the patched run or a server error; any patch can also fail in
\* the transport
PatchAnswers(exists, busy) ==
    {NoAnswer} \cup (IF ~exists THEN {404}
                     ELSE IF busy THEN {409}
                     ELSE {200, 500})

\* HttpResponse.json(): the decoded body, or OsbsResponseException with the
\* status code of a response that is neither OK nor Created
ResponseJson(status) ==
    IF check_response(status) = NoExc
      THEN [exc |-> "none", status_code |-> status, json |-> "run"]
      ELSE [exc |-> "OsbsResponseException", status_code |-> status,
            json |-> "None"]

Raised(cls, status_code, msg) ==
    [outcome |-> "raised", cls |-> cls, status_code |-> status_code,
     msg |-> msg]

Returned(json) ==
    [outcome |-> "returned", cls |-> "none", status_code |-> 0, msg |-> json]

\* lines 428-438
PipelineRunCheckResponseReraises(status) ==
    LET r == ResponseJson(status)
    IN  IF r.exc = "none" THEN Returned(r.json)
        ELSE Raised(r.exc, r.status_code, "response")

PipelineRunCheckResponseSwallowsConflict(status) ==
    LET r == ResponseJson(status)
    IN  IF r.exc = "none" THEN Returned(r.json)
        ELSE IF r.status_code \in {404, 409} THEN Returned("None")
        ELSE Raised(r.exc, r.status_code, "response")

PipelineRunCheckResponse(status) ==
    LET r == ResponseJson(status)
    IN  IF r.exc = "none" THEN Returned(r.json)
        ELSE IF r.status_code = 404 THEN Returned("None")
        ELSE Raised(r.exc, r.status_code, "response")

\* exc_msg of the two operations
DoesNotExistMsg(op) ==
    IF op = "cancel" THEN "can't be canceled, because it doesn't exist"
    ELSE "Can't update annotations, because it doesn't exist"

\* lines 441-460 and 463-482: one run of the decorated function, given what
\* the patch was answered with
PatchOnceInverted(op, answer) ==
    IF answer = NoAnswer THEN Raised("OsbsException", 0, "transport")
    ELSE LET response_json == PipelineRunCheckResponse(answer)
         IN  IF response_json.outcome = "raised" THEN response_json
             ELSE IF response_json.msg # "None"
               THEN Raised("OsbsException", 0, DoesNotExistMsg(op))
             ELSE response_json

PatchOnce(op, answer) ==
    IF answer = NoAnswer THEN Raised("OsbsException", 0, "transport")
    ELSE LET response_json == PipelineRunCheckResponse(answer)
         IN  IF response_json.outcome = "raised" THEN response_json
             ELSE IF response_json.msg = "None"
               THEN Raised("OsbsException", 0, DoesNotExistMsg(op))
             ELSE response_json

\* calls made on one PipelineRun after the first
MaxPatchCalls == 1

API_VERSION == "tekton.dev/v1beta1"

pipeline_run_name == "run"

\* lines 371-376: self.minimal_data; a key that is not there is "absent"
MinimalData ==
    [apiVersion |-> API_VERSION, kind |-> "PipelineRun",
     name |-> pipeline_run_name, spec_status |-> "absent",
     annotations |-> "absent"]

\* what update_annotations can be given
Annotations == {"one", "two"}

\* lines 442-443 and 464-465: the patch body of one run of the decorated
\* function, built on a deep copy of self.minimal_data, and self.minimal_data
\* as the function leaves it
PatchDataOnTemplate(op, minimal_data, annotations) ==
    LET data == IF op = "cancel"
                  THEN [minimal_data EXCEPT
                          !.spec_status = "CancelledRunFinally"]
                  ELSE [minimal_data EXCEPT !.annotations = annotations]
    IN  [data |-> data, minimal_data |-> data]

PatchData(op, minimal_data, annotations) ==
    LET data == IF op = "cancel"
                  THEN [minimal_data EXCEPT
                          !.spec_status = "CancelledRunFinally"]
                  ELSE [minimal_data EXCEPT !.annotations = annotations]
    IN  [data |-> data, minimal_data |-> minimal_data]

\* retry_on_conflict: only an OsbsResponseException raised due to a conflict
\* is retried, and only OS_CONFLICT_MAX_RETRIES times
ShouldRetry(res, retries) ==
    /\ res.outcome = "raised"
    /\ res.cls = "OsbsResponseException"
    /\ res.status_code = 409
    /\ retries < OS_CONFLICT_MAX_RETRIES

PatchInit ==
    /\ WatchIdle /\ StartIdle /\ TaskRunsIdle /\ FailedIdle /\ OpenshiftIdle
    /\ StreamIdle /\ LogsIdle /\ ErrorIdle /\ QueryIdle /\ WatchedStartIdle
    /\ PodIdle /\ FinishIdle
    /\ pw_op \in {"cancel", "annotate"}
    /\ pw_pc = "call"
    /\ pw_exists \in BOOLEAN
    /\ pw_busy \in BOOLEAN
    /\ pw_patches = <<>>
    /\ pw_retries = 0
    /\ pw_slept = 0
    /\ pw_result = NoResult
    /\ pw_minimal_data = MinimalData
    /\ pw_annotations \in IF pw_op = "annotate" THEN Annotations ELSE {"none"}
    /\ pw_sent = <<>>
    /\ pw_calls = 0

\* one attempt: the patch is sent and answered, the function returns or
\* raises, and the retry policy lets the outcome through or goes on
PatchAttempt ==
    /\ pw_pc = "call"
    /\ \E answer \in PatchAnswers(pw_exists, pw_busy) :
         LET res == PatchOnce(pw_op, answer)
             built == PatchData(pw_op, pw_minimal_data, pw_annotations)
         IN  /\ pw_patches' = Append(pw_patches, answer)
             /\ pw_sent' = Append(pw_sent, [op |-> pw_op,
                                            annotations |-> pw_annotations,
                                            data |-> built.data])
             /\ pw_minimal_data' = built.minimal_data
             /\ IF ShouldRetry(res, pw_retries)
                  THEN /\ pw_pc' = "backoff"
                       /\ UNCHANGED pw_result
                  ELSE /\ pw_pc' = "done"
                       /\ pw_result' = res
    /\ UNCHANGED <<pw_op, pw_exists, pw_busy, pw_retries, pw_slept,
                   pw_annotations, pw_calls>>
    /\ UNCHANGED OutsidePatch

\* the wait before the next attempt
PatchBackoff ==
    /\ pw_pc = "backoff"
    /\ pw_slept' = pw_slept + OS_CONFLICT_WAIT
    /\ pw_retries' = pw_retries + 1
    /\ pw_pc' = "call"
    /\ UNCHANGED <<pw_op, pw_exists, pw_busy, pw_patches, pw_result,
                   pw_minimal_data, pw_annotations, pw_sent, pw_calls>>
    /\ UNCHANGED OutsidePatch

\* another client starts or stops writing the same run
ConcurrentWriter ==
    /\ pw_pc \in {"call", "backoff"}
    /\ pw_exists
    /\ pw_busy' = ~pw_busy
    /\ UNCHANGED <<pw_op, pw_pc, pw_exists, pw_patches, pw_retries, pw_slept,
                   pw_result, pw_minimal_data, pw_annotations, pw_sent,
                   pw_calls>>
    /\ UNCHANGED OutsidePatch

PatchNext == PatchAttempt \/ PatchBackoff \/ ConcurrentWriter

SpecPatch == PatchInit /\ [][PatchNext]_vars

\* the next call of cancel_pipeline_run or update_annotations on the same
\* PipelineRun, after the call before it has returned or raised
PatchCall ==
    /\ pw_pc = "done"
    /\ pw_calls < MaxPatchCalls
    /\ pw_calls' = pw_calls + 1
    /\ \E op \in {"cancel", "annotate"} :
         /\ pw_op' = op
         /\ pw_annotations' \in IF op = "annotate" THEN Annotations
                                ELSE {"none"}
    /\ pw_pc' = "call"
    /\ pw_patches' = <<>>
    /\ pw_retries' = 0
    /\ pw_slept' = 0
    /\ pw_result' = NoResult
    /\ UNCHANGED <<pw_exists, pw_busy, pw_minimal_data, pw_sent>>
    /\ UNCHANGED OutsidePatch

PatchCallsNext == PatchNext \/ PatchCall

SpecPatchCalls == PatchInit /\ [][PatchCallsNext]_vars

\* ------------------------------------------------- patch operations: claims
Answered(status) == { i \in 1..Len(pw_patches) : pw_patches[i] = status }

DoesNotExist == Raised("OsbsException", 0, DoesNotExistMsg(pw_op))

\* C11: cancel_pipeline_run on a run that does not exist makes one patch,
\* which is answered 404, and ends at once with the error saying that the
\* run does not exist: nothing is retried and nothing is waited for.
C11_NotFoundIsRaisedAtOnce ==
    /\ \A i \in Answered(404) : /\ i = Len(pw_patches)
                                /\ pw_pc = "done"
                                /\ pw_result = DoesNotExist
    /\ (pw_op = "cancel" /\ ~pw_exists /\ Answered(404) # {})
         => /\ Len(pw_patches) = 1
            /\ pw_retries = 0
            /\ pw_slept = 0
            /\ pw_result.msg = "can't be canceled, because it doesn't exist"

C11_Witness ==
    /\ pw_op = "cancel"
    /\ ~pw_exists
    /\ pw_pc = "done"
    /\ pw_patches = <<404>>

C13_ConflictRetriedUpToBound ==
    /\ pw_retries <= OS_CONFLICT_MAX_RETRIES
    /\ Len(pw_patches) <= OS_CONFLICT_MAX_RETRIES + 1
    /\ pw_slept = OS_CONFLICT_WAIT * pw_retries
    /\ \A i \in 1..Len(pw_patches) - 1 : pw_patches[i] = 409
    /\ pw_pc = "call" => Len(pw_patches) = pw_retries
    /\ pw_pc = "backoff" => /\ Len(pw_patches) = pw_retries + 1
                            /\ pw_patches[Len(pw_patches)] = 409
    /\ (pw_pc = "done" /\ Answered(409) = 1..Len(pw_patches))
         => /\ Len(pw_patches) = OS_CONFLICT_MAX_RETRIES + 1
            /\ pw_result = Raised("OsbsResponseException", 409, "response")

C13_Witness ==
    /\ pw_op = "annotate"
    /\ pw_pc = "done"
    /\ Answered(409) = 1..Len(pw_patches)
    /\ pw_retries = OS_CONFLICT_MAX_RETRIES

\* the one body a cancel patch can have
CancelBody ==
    [apiVersion |-> "tekton.dev/v1beta1", kind |-> "PipelineRun",
     name |-> "run", spec_status |-> "CancelledRunFinally",
     annotations |-> "absent"]

\* C33: over any sequence of cancel_pipeline_run and update_annotations
\* calls on one PipelineRun, conflict retries included, every cancel patch
\* has the same body: apiVersion, kind, metadata.name and spec.status =
\* CancelledRunFinally, without annotations; every annotate patch carries
\* the annotations of its call and no spec.status; and self.minimal_data
\* stays as the constructor made it.
C33_CancelBodyIsAlwaysTheSame ==
    /\ \A i \in 1..Len(pw_sent) :
         IF pw_sent[i].op = "cancel"
           THEN pw_sent[i].data = CancelBody
           ELSE /\ pw_sent[i].data.spec_status = "absent"
                /\ pw_sent[i].data.annotations = pw_sent[i].annotations
                /\ pw_sent[i].data.annotations \in Annotations
    /\ pw_pc # "idle"
         => pw_minimal_data = [CancelBody EXCEPT !.spec_status = "absent"]

\* an annotate call with a conflict retry, then a cancel call with a
\* conflict retry
C33_Witness ==
    /\ pw_calls = 1
    /\ Len(pw_sent) = 4
    /\ pw_sent[1].op = "annotate" /\ pw_sent[1].annotations = "one"
    /\ pw_sent[2].op = "annotate"
    /\ pw_sent[3].op = "cancel"
    /\ pw_sent[4].op = "cancel"

\* ------------------------------------------- Openshift: auth and requests
\* resource requests one Openshift instance hands to its session; with the
\* token exchanges there is one request more at most when a call begins
MaxSent == 2

\* Arguments of the constructor. A token is None, the empty string or a
\* token; username and password count when both are given; Kerberos is off,
\* on, or on with a keytab but no principal; use_auth is None, True or
\* False; the service-account token file is unreadable or holds, after
\* rstrip(), the empty string or a token. Client certificate and key are
\* given together or not at all.
Configs ==
    [token : {"None", "", "given"},
     userpass : BOOLEAN,
     use_kerberos : {"no", "yes", "keytab_no_principal"},
     use_auth : {"None", "True", "False"},
     sa_file : {"unreadable", "", "serviceaccount"}]

\* truth value of a Python string or None
Truthy(x) == x \notin {"None", ""}

\* lines 107-124: reads the token file into self.token; False on IOError
can_use_serviceaccount_token(cfg) ==
    IF cfg.sa_file = "unreadable"
      THEN [result |-> FALSE, token |-> cfg.token]
      ELSE [result |-> TRUE, token |-> cfg.sa_file]

\* lines 87-105: self.token and self.use_auth after construction
OpenshiftInitAuthByDefault(cfg) ==
    LET auth_credentials_provided ==
            cfg.use_kerberos # "no" \/ Truthy(cfg.token) \/ cfg.userpass
        sa == can_use_serviceaccount_token(cfg)
    IN  IF cfg.use_auth = "None"
          THEN IF auth_credentials_provided
                 THEN [use_auth |-> TRUE, token |-> cfg.token]
                 ELSE [use_auth |-> TRUE, token |-> sa.token]
          ELSE IF auth_credentials_provided
                 THEN [use_auth |-> (cfg.use_auth = "True"),
                       token |-> cfg.token]
                 ELSE [use_auth |-> (cfg.use_auth = "True"),
                       token |-> sa.token]

OpenshiftInit(cfg) ==
    LET auth_credentials_provided ==
            cfg.use_kerberos # "no" \/ Truthy(cfg.token) \/ cfg.userpass
        sa == can_use_serviceaccount_token(cfg)
    IN  IF cfg.use_auth = "None"
          THEN IF auth_credentials_provided
                 THEN [use_auth |-> TRUE, token |-> cfg.token]
                 ELSE [use_auth |-> sa.result, token |-> sa.token]
          ELSE IF auth_credentials_provided
                 THEN [use_auth |-> (cfg.use_auth = "True"),
                       token |-> cfg.token]
                 ELSE [use_auth |-> (cfg.use_auth = "True"),
                       token |-> sa.token]

\* a request handed to the session: the token exchange or a resource request
ExchangeRequest(credentials) ==
    [kind |-> "exchange", method |-> "get", authorization |-> "none",
     credentials |-> credentials, data |-> "none"]

ResourceRequest(method, authorization, data) ==
    [kind |-> "resource", method |-> method, authorization |-> authorization,
     credentials |-> "none", data |-> data]

\* "Bearer %s" % self.token
Bearer(token) == <<"Bearer", token>>

\* what the token exchange is answered with: a redirect whose fragment holds
\* access_token, a redirect whose fragment lacks it, a response without a
\* Location header, or no response at all
ExchangeAnswers == {"access_token", "no_access_token", "no_location",
                    "transport"}

\* lines 203-243: the token afterwards, the exception that left the method
\* and the request it made
get_oauth_token(cfg, use_auth, token, answer) ==
    LET credentials == IF ~use_auth THEN "none"
                       ELSE IF cfg.userpass THEN "basic"
                       ELSE IF cfg.use_kerberos # "no" THEN "kerberos"
                       ELSE "identity"
        request == <<ExchangeRequest(credentials)>>
    IN  IF /\ credentials = "kerberos"
           /\ cfg.use_kerberos = "keytab_no_principal"
          THEN [raised |-> "OsbsAuthException", token |-> token,
                sent |-> <<>>]
        ELSE IF answer = "transport"
          THEN [raised |-> "OsbsException", token |-> token,
                sent |-> request]
        ELSE IF answer = "no_location"
          THEN [raised |-> "none", token |-> token, sent |-> request]
        ELSE IF answer = "no_access_token"
          THEN [raised |-> "KeyError", token |-> token, sent |-> request]
        ELSE [raised |-> "none", token |-> "oauth", sent |-> request]

\* lines 145-154: the Authorization header of a request, after the token
\* exchange when there is no token yet
RequestArgsExchangeAlways(cfg, use_auth, token, with_auth, answer) ==
    IF with_auth /\ use_auth
      THEN LET got == get_oauth_token(cfg, use_auth, token, answer)
           IN  IF got.raised # "none"
                 THEN got @@ [authorization |-> "none"]
               ELSE IF Truthy(got.token)
                 THEN got @@ [authorization |-> Bearer(got.token)]
               ELSE [raised |-> "OsbsAuthException", token |-> got.token,
                     sent |-> got.sent, authorization |-> "none"]
      ELSE [raised |-> "none", token |-> token, sent |-> <<>>,
            authorization |-> "none"]

RequestArgs(cfg, use_auth, token, with_auth, answer) ==
    IF with_auth /\ use_auth
      THEN LET got == IF token = "None"
                        THEN get_oauth_token(cfg, use_auth, token, answer)
                        ELSE [raised |-> "none", token |-> token,
                              sent |-> <<>>]
           IN  IF got.raised # "none"
                 THEN got @@ [authorization |-> "none"]
               ELSE IF Truthy(got.token)
                 THEN got @@ [authorization |-> Bearer(got.token)]
               ELSE [raised |-> "OsbsAuthException", token |-> got.token,
                     sent |-> got.sent, authorization |-> "none"]
      ELSE [raised |-> "none", token |-> token, sent |-> <<>>,
            authorization |-> "none"]

\* lines 173-201: post, get, put, patch and delete
Methods == {"post", "get", "put", "patch", "delete"}

\* what the session does with a request: it returns a response, or raises
\* after the request was made
SessionOutcomes == {"response", "transport"}

\* lines 393-414: the manifest is None, an empty dict, a dict without
\* metadata, or carries a name that is or is not self.pipeline_run_name
Manifests == {"None", "empty", "no_metadata", "other_name", "same_name"}

\* self.input_data.get('metadata', {}).get('name')
RunName(input_data) ==
    IF input_data = "same_name" THEN pipeline_run_name
    ELSE IF input_data = "other_name" THEN "other"
    ELSE "None"

\* lines 394-402: the checks of start_pipeline_run before its request
StartCheckNoNameCheck(input_data) ==
    IF input_data \in {"None", "empty"} THEN "No input data provided"
    ELSE "post"

StartCheck(input_data) ==
    IF input_data \in {"None", "empty"} THEN "No input data provided"
    ELSE IF RunName(input_data) # pipeline_run_name
      THEN "Pipeline run name provided is different"
    ELSE "post"

\* the places of a sequence of requests that hold resource requests, and
\* those that hold token exchanges
ResourceRequestsIn(s) == { i \in 1..Len(s) : s[i].kind = "resource" }

ExchangesIn(s) == { i \in 1..Len(s) : s[i].kind = "exchange" }

OpenshiftStart ==
    /\ WatchIdle /\ StartIdle /\ TaskRunsIdle /\ FailedIdle /\ PatchIdle
    /\ StreamIdle /\ LogsIdle /\ ErrorIdle /\ QueryIdle /\ WatchedStartIdle
    /\ PodIdle /\ FinishIdle
    /\ os_cfg \in Configs
    /\ os_use_auth = OpenshiftInit(os_cfg).use_auth
    /\ os_token = OpenshiftInit(os_cfg).token
    /\ os_sent = <<>>
    /\ os_result = NoResult
    /\ os_last = [op |-> "none", input |-> "none", exchange |-> "none"]

\* one call of post, get, put, patch or delete with with_auth left True:
\* _request_args, then the request through the session
Call(op, input, method, data, answer, outcome) ==
    LET args == RequestArgs(os_cfg, os_use_auth, os_token, TRUE, answer)
    IN  /\ os_token' = args.token
        /\ IF args.raised # "none"
             THEN /\ os_sent' = os_sent \o args.sent
                  /\ os_result' = Raised(args.raised, 0, "auth")
             ELSE /\ os_sent' = os_sent \o args.sent \o
                        <<ResourceRequest(method, args.authorization, data)>>
                  /\ os_result' =
                        IF outcome = "transport"
                          THEN Raised("OsbsException", 0, "transport")
                          ELSE Returned("response")
        /\ os_last' = [op |-> op, input |-> input,
                       exchange |-> IF args.sent # <<>> THEN answer
                                    ELSE "none"]
        /\ UNCHANGED <<os_cfg, os_use_auth>>

\* a resource request of any caller
Request ==
    /\ Len(os_sent) <= MaxSent
    /\ Cardinality(ResourceRequestsIn(os_sent)) < MaxSent
    /\ \E method \in Methods, answer \in ExchangeAnswers,
          outcome \in SessionOutcomes :
         Call("request", "none", method, "none", answer, outcome)
    /\ UNCHANGED OutsideOpenshift

\* lines 393-414
StartPipelineRun ==
    /\ Len(os_sent) <= MaxSent
    /\ Cardinality(ResourceRequestsIn(os_sent)) < MaxSent
    /\ \E input_data \in Manifests, answer \in ExchangeAnswers,
          outcome \in SessionOutcomes :
         IF StartCheck(input_data) = "post"
           THEN Call("start", input_data, "post", "manifest", answer, outcome)
           ELSE /\ os_result' =
                     Raised("OsbsException", 0, StartCheck(input_data))
                /\ os_last' = [op |-> "start", input |-> input_data,
                               exchange |-> "none"]
                /\ UNCHANGED <<os_cfg, os_use_auth, os_token, os_sent>>
    /\ UNCHANGED OutsideOpenshift

OpenshiftNext == Request \/ StartPipelineRun

SpecOpenshift == OpenshiftStart /\ [][OpenshiftNext]_vars

\* ---------------------------------------------------- Openshift: claims
\* the requests the last call added to os_sent
NewRequests(before, after) == SubSeq(after, Len(before) + 1, Len(after))

InvalidManifests == {"None", "empty", "no_metadata", "other_name"}

\* a call of start_pipeline_run with a manifest that is missing or names
\* another run raises OsbsException and hands no request to the session
StartRejects ==
    (os_last'.op = "start" /\ os_last'.input \in InvalidManifests)
       => /\ os_result'.outcome = "raised"
          /\ os_result'.cls = "OsbsException"
          /\ os_sent' = os_sent
          /\ os_token' = os_token

C18_FailedExchangeIsAuthError ==
    os_last.exchange \in {"no_location", "no_access_token"}
       => /\ os_result.outcome = "raised"
          /\ os_result.cls = "OsbsAuthException"
          /\ os_sent # <<>>
          /\ os_sent[Len(os_sent)].kind = "exchange"

NoCredentials(cfg) ==
    /\ ~Truthy(cfg.token)
    /\ ~cfg.userpass
    /\ cfg.use_kerberos = "no"
    /\ cfg.use_auth = "None"
    /\ cfg.sa_file = "unreadable"

C30_TokenExchangedOnceAndCached ==
    /\ [][LET new == NewRequests(os_sent, os_sent')
          IN  /\ ExchangesIn(new) # {}
                   => /\ os_use_auth
                      /\ os_token = "None"
                      /\ ExchangesIn(new) = {1}
              /\ os_last'.exchange = "access_token"
                   => os_token = "None" /\ os_token' = "oauth"
              /\ os_token # "None"
                   => /\ os_token' = os_token
                      /\ ExchangesIn(new) = {}
                      /\ os_last'.exchange = "none"
              /\ (os_token # "None" /\ os_use_auth)
                   => \A i \in ResourceRequestsIn(new) :
                        new[i].authorization = Bearer(os_token)]_vars
    /\ [](os_cfg.token # "None" => ExchangesIn(os_sent) = {})
    /\ [](os_token = "oauth"
            => \E e \in ExchangesIn(os_sent) :
                  /\ \A i \in ExchangesIn(os_sent) : i <= e
                  /\ \A i \in ResourceRequestsIn(os_sent) :
                       i > e => os_sent[i].authorization = Bearer("oauth"))

\* a call whose exchange gave the token, then a call that was sent with the
\* cached token and without an exchange
C30_Witness ==
    /\ Len(os_sent) = 3
    /\ ExchangesIn(os_sent) = {1}
    /\ os_sent[2].authorization = Bearer("oauth")
    /\ os_sent[3].authorization = Bearer("oauth")
    /\ os_last.exchange = "none"
    /\ os_token = "oauth"

\* ------------------------------------------------------ Pod._stream_logs
\* clock ticks in a second: idle times are no whole numbers of seconds
TicksPerSecond == 2
\* seconds a connection can stay without a line
MaxIdleSecs == 61
\* lines of one log stream
MaxLogLines == 2
\* reconnects of one log stream
MaxReconnects == 2

\* If connection is closed within this many seconds, give up
min_idle_timeout == 60

\* how a connection ends without an exception of its own: iter_lines is
\* exhausted (the server closed the stream, or a read error was silenced)
CleanEnd == [cls |-> "none", cause |-> "end"]

\* int(x) of a time of x ticks, in seconds: truncation towards zero
IntSeconds(ticks) ==
    IF ticks >= 0 THEN ticks \div TicksPerSecond
    ELSE -((-ticks) \div TicksPerSecond)

\* lines 945-947: since = int(idle - 1)
SinceSecondsNoMargin(idle) == IntSeconds(idle)

SinceSeconds(idle) == IntSeconds(idle - TicksPerSecond)

\* lines 930-937: whether the exception leaves the generator
StreamRaisesWrapped(exc) ==
    IF exc.cls = "none" THEN FALSE
    ELSE IF exc.cls \in {"ConnectionError", "Timeout"} THEN FALSE
    ELSE TRUE

StreamRaises(exc) ==
    IF exc.cls = "none" THEN FALSE
    ELSE IF exc.cls \in {"OsbsException", "OsbsResponseException"}
      THEN exc.cause \notin {"ConnectionError", "Timeout"}
    ELSE IF exc.cls \in {"ConnectionError", "Timeout"} THEN FALSE
    ELSE TRUE

\* line 939: idle = time.time() - connected, where connected was set when
\* the current GET was made (905) and again at every line (919); carried is
\* the time between the last line and the current GET
IdleSinceLastLine(elapsed, carried) == elapsed + carried

IdleTime(elapsed, carried) == elapsed

\* lines 939-943: the stream is over when the connection closed early
GivesUpAlways(idle) == TRUE

GivesUp(idle) == idle < min_idle_timeout * TicksPerSecond

StreamInit ==
    /\ WatchIdle /\ StartIdle /\ TaskRunsIdle /\ FailedIdle /\ PatchIdle
    /\ OpenshiftIdle /\ LogsIdle /\ ErrorIdle /\ QueryIdle /\ WatchedStartIdle
    /\ PodIdle /\ FinishIdle
    /\ sl_pc = "start"
    /\ sl_elapsed = 0
    /\ sl_carried = 0
    /\ sl_since = "unset"
    /\ sl_requests = <<>>
    /\ sl_yielded = 0
    /\ sl_last = [op |-> "none", idle |-> 0, cause |-> "none"]

\* lines 893-915: the first pass through the top of the loop
StreamStart ==
    /\ sl_pc = "start"
    /\ sl_elapsed' = 0
    /\ sl_requests' = Append(sl_requests, sl_since)
    /\ sl_pc' = "connecting"
    /\ sl_last' = [op |-> "request", idle |-> 0, cause |-> "none"]
    /\ UNCHANGED <<sl_carried, sl_since, sl_yielded>>
    /\ UNCHANGED OutsideStream

\* time passes while the GET is under way or the stream is open
StreamTick ==
    /\ sl_pc \in {"connecting", "streaming"}
    /\ sl_elapsed < MaxIdleSecs * TicksPerSecond
    /\ sl_elapsed' = sl_elapsed + 1
    /\ sl_last' = [op |-> "tick", idle |-> 0, cause |-> "none"]
    /\ UNCHANGED <<sl_pc, sl_carried, sl_since, sl_requests, sl_yielded>>
    /\ UNCHANGED OutsideStream

\* lines 914-916: the GET returns a response and check_response passes
\* or raises OsbsResponseException, which is no transport failure
StreamResponse ==
    /\ sl_pc = "connecting"
    /\ \E status \in StatusCodes :
         LET exc == check_response(status)
         IN  /\ sl_pc' = IF StreamRaises(exc) THEN "raised" ELSE "streaming"
             /\ sl_last' = [op |-> "response", idle |-> 0,
                            cause |-> exc.cls]
    /\ UNCHANGED <<sl_elapsed, sl_carried, sl_since, sl_requests, sl_yielded>>
    /\ UNCHANGED OutsideStream

\* lines 918-920: a line arrives and is yielded
StreamLine ==
    /\ sl_pc = "streaming"
    /\ sl_yielded < MaxLogLines
    /\ sl_elapsed' = 0
    /\ sl_carried' = 0
    /\ sl_yielded' = sl_yielded + 1
    /\ sl_last' = [op |-> "line", idle |-> 0, cause |-> "none"]
    /\ UNCHANGED <<sl_pc, sl_since, sl_requests>>
    /\ UNCHANGED OutsideStream

\* lines 930-947 and 904-915: the GET or the stream ends, cleanly or with an
\* exception; unless the exception is raised, the idle time decides between
\* the end of the generator and a new GET with sinceSeconds
StreamDisconnect ==
    /\ sl_pc \in {"connecting", "streaming"}
    /\ Len(sl_requests) <= MaxReconnects
    /\ \E exc \in TransportExc \cup {OtherOsbsExc} \cup
                  (IF sl_pc = "streaming" THEN {CleanEnd} ELSE {}) :
         LET idle == IdleTime(sl_elapsed, sl_carried)
         IN  /\ sl_last' = [op |-> "disconnect", idle |-> idle,
                            cause |-> IF exc = CleanEnd THEN "end"
                                      ELSE IF exc \in TransportExc
                                        THEN "transport"
                                      ELSE "other"]
             /\ IF StreamRaises(exc)
                  THEN /\ sl_pc' = "raised"
                       /\ UNCHANGED <<sl_elapsed, sl_carried, sl_since,
                                      sl_requests>>
                ELSE IF GivesUp(idle)
                  THEN /\ sl_pc' = "done"
                       /\ UNCHANGED <<sl_elapsed, sl_carried, sl_since,
                                      sl_requests>>
                ELSE /\ sl_since' = SinceSeconds(idle)
                     /\ sl_elapsed' = 0
                     /\ sl_carried' = sl_carried + sl_elapsed
                     /\ sl_requests' = Append(sl_requests, sl_since')
                     /\ sl_pc' = "connecting"
    /\ UNCHANGED sl_yielded
    /\ UNCHANGED OutsideStream

StreamNext ==
    \/ StreamStart
    \/ StreamTick
    \/ StreamResponse
    \/ StreamLine
    \/ StreamDisconnect

SpecStream == StreamInit /\ [][StreamNext]_vars

\* lines 904 and 939-947: `while True` has no count of its passes, so a
\* connection that closes after 60 seconds or more is followed by a new GET
\* however many there were before. This is StreamDisconnect for the passes
\* beyond the first MaxReconnects, whose requests are not kept in
\* sl_requests and whose time is not added to sl_carried.
StreamDisconnectAgain ==
    /\ sl_pc \in {"connecting", "streaming"}
    /\ Len(sl_requests) > MaxReconnects
    /\ \E exc \in TransportExc \cup {OtherOsbsExc} \cup
                  (IF sl_pc = "streaming" THEN {CleanEnd} ELSE {}) :
         LET idle == IdleTime(sl_elapsed, sl_carried)
         IN  /\ sl_last' = [op |-> "disconnect", idle |-> idle,
                            cause |-> IF exc = CleanEnd THEN "end"
                                      ELSE IF exc \in TransportExc
                                        THEN "transport"
                                      ELSE "other"]
             /\ IF StreamRaises(exc)
                  THEN /\ sl_pc' = "raised"
                       /\ UNCHANGED <<sl_elapsed, sl_since>>
                ELSE IF GivesUp(idle)
                  THEN /\ sl_pc' = "done"
                       /\ UNCHANGED <<sl_elapsed, sl_since>>
                ELSE /\ sl_since' = SinceSeconds(idle)
                     /\ sl_elapsed' = 0
                     /\ sl_pc' = "connecting"
    /\ UNCHANGED <<sl_carried, sl_requests, sl_yielded>>
    /\ UNCHANGED OutsideStream

\* the idle times that matter to line 941: just below 60 seconds, 60
\* seconds, and more
WaitTimes == {min_idle_timeout * TicksPerSecond - 1,
              min_idle_timeout * TicksPerSecond,
              MaxIdleSecs * TicksPerSecond}

\* time passes while the GET is under way or the stream is open, up to one
\* of the times that matter
StreamWait ==
    /\ sl_pc \in {"connecting", "streaming"}
    /\ \E t \in WaitTimes :
         /\ t > sl_elapsed
         /\ sl_elapsed' = t
    /\ sl_last' = [op |-> "tick", idle |-> 0, cause |-> "none"]
    /\ UNCHANGED <<sl_pc, sl_carried, sl_since, sl_requests, sl_yielded>>
    /\ UNCHANGED OutsideStream

StreamLiveNext ==
    \/ StreamStart
    \/ StreamWait
    \/ StreamResponse
    \/ StreamLine
    \/ StreamDisconnect
    \/ StreamDisconnectAgain

\* the generator is run to its end by its consumer, and every connection
\* is closed at some time, by the server or by a failure of the transport
SpecStreamLive ==
    /\ StreamInit
    /\ [][StreamLiveNext]_vars
    /\ WF_vars(StreamStart)
    /\ WF_vars(StreamDisconnect \/ StreamDisconnectAgain)

\* ----------------------------------------------- Pod._stream_logs: claims
\* C15: when a connection of the log stream ends, by a transport error or
\* by the end of the stream, after an idle time t: below 60 seconds the
\* generator ends and makes no further request; from 60 seconds on it makes
\* exactly one new request, with sinceSeconds = floor(t - 1), which is less
\* than t.
C15_EndOrReconnectByIdleTime ==
    [][(sl_last'.op = "disconnect" /\ sl_last'.cause \in {"end", "transport"})
         => LET t == sl_last'.idle
            IN  IF t < min_idle_timeout * TicksPerSecond
                  THEN /\ sl_pc' = "done"
                       /\ sl_requests' = sl_requests
                  ELSE /\ Len(sl_requests') = Len(sl_requests) + 1
                       /\ LET n == sl_requests'[Len(sl_requests')]
                          IN  /\ n \in Nat
                              /\ n * TicksPerSecond <= t - TicksPerSecond
                              /\ t - TicksPerSecond < (n + 1) * TicksPerSecond
                              /\ n * TicksPerSecond < t
                       /\ SubSeq(sl_requests', 1, Len(sl_requests))
                            = sl_requests]_vars

C15_Witness ==
    /\ sl_last.op = "disconnect"
    /\ sl_last.idle = min_idle_timeout * TicksPerSecond + 1
    /\ sl_requests = <<"unset", min_idle_timeout - 1>>

\* the time since the most recently received line of the stream
SinceLastLine == sl_carried + sl_elapsed

\* a connection ends by a transport error or by the end of the stream
Disconnects ==
    sl_last'.op = "disconnect" /\ sl_last'.cause \in {"end", "transport"}

\* C24 as stated: once a line has been received, the idle time that decides
\* between end and reconnect is the time since the most recently received
\* line, also when connections that delivered no line lie in between.
C24_IdleIsTimeSinceLastLine ==
    [][(Disconnects /\ sl_yielded > 0)
         => /\ sl_last'.idle = SinceLastLine
            /\ sl_pc' = "done" <=>
                 SinceLastLine < min_idle_timeout * TicksPerSecond]_vars

\* C24, amended: the idle time is the time since the later of the most
\* recently received line and the GET of the current connection: the time
\* that passed between the last line and that GET does not count, and only
\* on a connection that is the first or has delivered a line is the idle
\* time the time since the last line.
C24_IdleIsTimeSinceLineOrConnect ==
    [][Disconnects
         => /\ sl_last'.idle = SinceLastLine - sl_carried
            /\ sl_carried = 0 => sl_last'.idle = SinceLastLine
            /\ sl_pc' = "done" <=>
                 SinceLastLine - sl_carried
                    < min_idle_timeout * TicksPerSecond]_vars

\* after a line, a connection was lost 60 seconds later and the stream
\* reconnected; the new connection ended at once without a line, and the
\* generator ended
C24_Witness ==
    /\ sl_pc = "done"
    /\ sl_yielded = 1
    /\ sl_carried = min_idle_timeout * TicksPerSecond
    /\ sl_last = [op |-> "disconnect", idle |-> 0, cause |-> "end"]
    /\ sl_requests = <<"unset", min_idle_timeout - 1>>

\* C31: a transport error (ConnectionError or Timeout, bare or as the cause
\* of an OsbsException) that ends a connection of the log stream, while the
\* GET is under way or while lines are read, never leaves the generator: the
\* generator ends or makes one new request, and whenever an exception has
\* left the generator it was no transport error.
C31_TransportErrorNeverRaised ==
    /\ [][(sl_last'.op = "disconnect" /\ sl_last'.cause = "transport")
            => /\ sl_pc' \in {"done", "connecting"}
               /\ sl_pc' = "done" => sl_requests' = sl_requests
               /\ sl_pc' = "connecting"
                    => Len(sl_requests') = Len(sl_requests) + 1]_vars
    /\ [](sl_pc = "raised" => sl_last.cause \notin {"transport", "end"})

\* a transport error ended the second connection before it gave a line,
\* more than 60 seconds after its GET, and a third request was made
C31_Witness ==
    /\ sl_last.op = "disconnect"
    /\ sl_last.cause = "transport"
    /\ sl_pc = "connecting"
    /\ sl_yielded = 0
    /\ Len(sl_requests) = 3

\* a connection closes, by a transport error or by the end of the stream,
\* 60 seconds or more after its GET or its last line
ClosedLate ==
    /\ sl_last.op = "disconnect"
    /\ sl_last.cause \in {"end", "transport"}
    /\ sl_last.idle >= min_idle_timeout * TicksPerSecond

\* C34 as stated: when every connection is closed at some time, the
\* generator comes to its end, after a bounded number of reconnects.
C34_StreamTerminates == <>(sl_pc \in {"done", "raised"})

\* C34, amended: the loop has no bound on its passes. A connection that
\* closes late is followed by a new GET whatever the number of GETs before
\* it, and one that closes early ends the generator; so when every
\* connection is closed at some time, the generator either comes to its end
\* or connections keep closing late for ever.
C34_EndsUnlessConnectionsKeepClosingLate ==
    /\ [][Disconnects
            => IF sl_last'.idle >= min_idle_timeout * TicksPerSecond
                 THEN sl_pc' = "connecting" /\ sl_elapsed' = 0
                 ELSE sl_pc' = "done"]_vars
    /\ (<>(sl_pc \in {"done", "raised"})) \/ []<>ClosedLate

\* a connection closed late after more GETs than the first MaxReconnects
\* and one, and a further GET, with a cursor of its own, is under way
C34_Witness ==
    /\ ClosedLate
    /\ sl_pc = "connecting"
    /\ Len(sl_requests) = MaxReconnects + 1
    /\ sl_requests[Len(sl_requests)] = min_idle_timeout - 1
    /\ sl_since = min_idle_timeout

\* ------------------------------------------- PipelineRun._get_logs_stream
\* the batches of one wait_for_taskruns call: every task run is yielded at
\* most once, in one batch
Batch == { b \in SeqsUpTo(TaskRunNames, MaxTaskRuns) :
             \A i, j \in 1..Len(b) : b[i] = b[j] => i = j }

Batches ==
    { p \in SeqsUpTo(Batch, MaxWatched) :
        \A i, j \in 1..Len(p) : \A k \in 1..Len(p[i]), l \in 1..Len(p[j]) :
           p[i][k] = p[j][l] => (i = j /\ k = l) }

\* the task runs wait_for_taskruns yields
Discovered(p) ==
    { n \in TaskRunNames :
        \E i \in 1..Len(p) : \E k \in 1..Len(p[i]) : p[i][k] = n }

\* the log of task run n with len lines: TaskRun.get_logs(follow=True,
\* wait=True), a generator that yields them and ends
LogOf(n, len) == [k \in 1..len |-> <<n, k>>]

\* steaming_task_runs[name] = stream
DictSet(d, name, stream) ==
    IF \E i \in 1..Len(d) : d[i].name = name
      THEN [i \in 1..Len(d) |->
              IF d[i].name = name THEN [name |-> name, stream |-> stream]
              ELSE d[i]]
      ELSE Append(d, [name |-> name, stream |-> stream])

\* del steaming_task_runs[name]
DictKeep(d, name) == d

DictDel(d, name) == SelectSeq(d, LAMBDA e : e.name # name)

\* line 763: "while steaming_task_runs" goes round again or leaves for the
\* next batch
AfterRoundOnce(d) == "batch"

AfterRoundUntilOneLeft(d) == IF Len(d) <= 1 THEN "batch" ELSE "round"

AfterRound(d) == IF d = <<>> THEN "batch" ELSE "round"

\* lines 759-762: the streams of a batch join the dict
RECURSIVE AddBatch(_, _)
AddBatch(d, batch) ==
    IF batch = <<>> THEN d
    ELSE AddBatch(DictSet(d, PipelineTaskName(Head(batch)), Head(batch)),
                  Tail(batch))

\* lines 756-758: wait_for_taskruns is entered unless wait_for_start raised
AfterWaitForStart(how) == IF how = "raised" THEN "raised" ELSE "batch"

LogsInit ==
    /\ WatchIdle /\ StartIdle /\ TaskRunsIdle /\ FailedIdle /\ PatchIdle
    /\ OpenshiftIdle /\ StreamIdle /\ ErrorIdle /\ QueryIdle
    /\ WatchedStartIdle /\ PodIdle /\ FinishIdle
    /\ lg_pc = "start"
    /\ lg_start = "none"
    /\ lg_pending \in Batches
    /\ \E len \in [TaskRunNames -> 0..MaxLogLines] :
         lg_streams = [n \in TaskRunNames |->
                         IF n \in Discovered(lg_pending)
                           THEN LogOf(n, len[n]) ELSE <<>>]
    /\ steaming_task_runs = <<>>
    /\ tasks = <<>>
    /\ lg_out = <<>>

\* line 756: wait_for_start returns the started run, or returns None when
\* its watch has ended, or raises; what it returns is not looked at
LogsStart ==
    /\ lg_pc = "start"
    /\ \E how \in {"returned", "ended", "raised"} :
         /\ lg_start' = how
         /\ lg_pc' = AfterWaitForStart(how)
    /\ UNCHANGED <<lg_pending, lg_streams, steaming_task_runs, tasks, lg_out>>
    /\ UNCHANGED OutsideLogs

\* lines 758-764: wait_for_taskruns yields its next batch, or ends
LogsBatch ==
    /\ lg_pc = "batch"
    /\ IF lg_pending = <<>>
         THEN /\ lg_pc' = "done"
              /\ UNCHANGED <<lg_pending, steaming_task_runs, tasks>>
         ELSE LET d == AddBatch(steaming_task_runs, Head(lg_pending))
              IN  /\ lg_pending' = Tail(lg_pending)
                  /\ steaming_task_runs' = d
                  /\ tasks' = d
                  /\ lg_pc' = AfterRound(d)
    /\ UNCHANGED <<lg_start, lg_streams, lg_out>>
    /\ UNCHANGED OutsideLogs

\* lines 763-769: next() of the stream of the next task of the round; a line
\* is yielded with the task's name, an exhausted stream leaves the dict;
\* after the last task of the round the while loop starts the next round
LogsPoll ==
    /\ lg_pc = "round"
    /\ LET task == Head(tasks)
           rest == Tail(tasks)
           log == lg_streams[task.stream]
           d == IF log = <<>>
                  THEN DictDel(steaming_task_runs, task.name)
                  ELSE steaming_task_runs
       IN  /\ IF log = <<>>
                THEN UNCHANGED <<lg_streams, lg_out>>
                ELSE /\ lg_out' = Append(lg_out, <<task.name, Head(log)>>)
                     /\ lg_streams' =
                          [lg_streams EXCEPT ![task.stream] = Tail(log)]
           /\ steaming_task_runs' = d
           /\ tasks' = IF rest = <<>> THEN d ELSE rest
           /\ lg_pc' = IF rest = <<>> THEN AfterRound(d) ELSE "round"
    /\ UNCHANGED <<lg_start, lg_pending>>
    /\ UNCHANGED OutsideLogs

LogsNext == LogsStart \/ LogsBatch \/ LogsPoll

SpecLogs == LogsInit /\ [][LogsNext]_vars

\* ------------------------------------- PipelineRun._get_logs_stream: claims
\* the lines yielded so far under one name
YieldedFor(name) ==
    LET pairs == SelectSeq(lg_out, LAMBDA pair : pair[1] = name)
    IN  [i \in 1..Len(pairs) |-> pairs[i][2]]

RECURSIVE SumLen(_, _)
SumLen(f, n) == IF n = 0 THEN 0 ELSE Len(f[n]) + SumLen(f, n - 1)

RECURSIVE SizeOf(_)
SizeOf(p) == IF p = <<>> THEN 0 ELSE Len(Head(p)) + SizeOf(Tail(p))

\* what is left to do: falls with every step of the generator
LogsLeft ==
    SumLen(lg_streams, MaxTaskRuns) + Len(steaming_task_runs)
      + 2 * SizeOf(lg_pending) + Len(lg_pending)
      + (IF lg_pc = "done" THEN 0 ELSE 1) + (IF lg_pc = "start" THEN 1 ELSE 0)

\* C16: with task runs of distinct pipeline-task names and finite logs that
\* end cleanly, and unless wait_for_start raises, the stream yields every
\* line of every log once, as (task name, line), in the order of its log,
\* and ends: what is yielded under a name followed by what is left of that
\* log is always the whole log, every step brings the end nearer, a step is
\* possible until the end, and at the end nothing is left of any log.
C16_EveryLineOnceInOrder ==
    /\ [](\A n \in TaskRunNames :
            LET whole == YieldedFor(PipelineTaskName(n)) \o lg_streams[n]
            IN  whole = LogOf(n, Len(whole)))
    /\ [](\A i \in 1..Len(lg_out) :
            \E n \in TaskRunNames : lg_out[i][1] = PipelineTaskName(n))
    /\ [](lg_pc = "done" => \A n \in TaskRunNames : lg_streams[n] = <<>>)
    /\ [](lg_pc \notin {"done", "raised"} => ENABLED LogsNext)
    /\ [][LogsLeft' < LogsLeft]_vars

C16_Witness ==
    /\ lg_pc = "done"
    /\ \A n \in TaskRunNames :
         YieldedFor(PipelineTaskName(n)) = LogOf(n, MaxLogLines)
    /\ lg_out[2][1] # lg_out[1][1]

\* C27: no task-run log stream is opened and no (task name, line) pair is
\* yielded unless wait_for_start has returned the run as started.
C27_NoStreamBeforeRunStarted ==
    (steaming_task_runs # <<>> \/ lg_out # <<>>) => lg_start = "returned"

\* the stream at the head of the round is the one polled
Polled == Head(tasks)

\* the last n entries of the pool
PoolTail(n) ==
    SubSeq(steaming_task_runs, Len(steaming_task_runs) - n + 1,
           Len(steaming_task_runs))

\* the places of lg_out that hold a line of the task of that name
LinesOf(name) == { i \in 1..Len(lg_out) : lg_out[i][1] = name }

\* C28: the merge is round-robin over the pool. Within a round the streams
\* still to be polled are the tail of the pool, in pool order, so that every
\* stream is polled once a round; a poll yields at most one line, under the
\* name of the polled stream; an exhausted stream leaves the pool, and a
\* stream that has more to give stays; between two consecutive lines of one
\* task every other task has at most one line, and exactly one if it has
\* lines before and after; the merge ends only with the pool empty and no
\* batch of task runs left to come.
C28_RoundRobinOverThePool ==
    /\ [](lg_pc = "round"
            => /\ tasks # <<>>
               /\ Len(tasks) <= Len(steaming_task_runs)
               /\ tasks = PoolTail(Len(tasks)))
    /\ [](\A i, j \in 1..Len(steaming_task_runs) :
            steaming_task_runs[i].name = steaming_task_runs[j].name => i = j)
    /\ [][lg_pc = "round"
            => LET log == lg_streams[Polled.stream]
               IN  /\ IF log = <<>>
                        THEN /\ lg_out' = lg_out
                             /\ \A i \in 1..Len(steaming_task_runs') :
                                  steaming_task_runs'[i] # Polled
                        ELSE /\ lg_out' = Append(lg_out,
                                                 <<Polled.name, Head(log)>>)
                             /\ steaming_task_runs' = steaming_task_runs
                   /\ IF Len(tasks) > 1
                        THEN tasks' = Tail(tasks) /\ lg_pc' = "round"
                        ELSE /\ tasks' = steaming_task_runs'
                             /\ lg_pc' = "batch" <=> steaming_task_runs' = <<>>
                   /\ lg_pending' = lg_pending]_vars
    /\ [](\A i, j \in 1..Len(lg_out) :
            (/\ i < j
             /\ lg_out[i][1] = lg_out[j][1]
             /\ \A k \in i + 1..j - 1 : lg_out[k][1] # lg_out[i][1])
              => \A n \in TaskRunNames :
                   LET between == LinesOf(PipelineTaskName(n)) \cap (i + 1..j - 1)
                       around == /\ \E k \in LinesOf(PipelineTaskName(n)) : k < i
                                 /\ \E k \in LinesOf(PipelineTaskName(n)) : k > j
                   IN  /\ Cardinality(between) <= 1
                       /\ around => Cardinality(between) = 1)
    /\ [](lg_pc = "done" => steaming_task_runs = <<>> /\ lg_pending = <<>>)
    /\ [][lg_pc = "done" => lg_out' = lg_out]_vars

\* two task runs, each with the longest log, merged line by line
C28_Witness ==
    /\ lg_pc = "done"
    /\ lg_start = "returned"
    /\ Len(lg_out) = 2 * MaxLogLines
    /\ \A i \in 1..Len(lg_out) - 1 : lg_out[i][1] # lg_out[i + 1][1]
    /\ lg_out[1][1] = PipelineTaskName(2)

\* C37: wait_for_taskruns is asked for its next batch only while the pool
\* of log streams is empty: a batch is taken from it, and a stream joins the
\* pool, only in a step that begins with the pool empty, and then the whole
\* batch joins; so the task runs of a later batch join the pool only after
\* every stream that was in the pool is exhausted and every line of the
\* batches before has been yielded.
C37_NextBatchOnlyWhenPoolEmpty ==
    /\ [][lg_pending' # lg_pending
            => /\ steaming_task_runs = <<>>
               /\ lg_pc = "batch"
               /\ lg_pending' = Tail(lg_pending)
               /\ steaming_task_runs' = AddBatch(<<>>, Head(lg_pending))]_vars
    /\ [][(\E i \in 1..Len(steaming_task_runs') :
             \A j \in 1..Len(steaming_task_runs) :
                steaming_task_runs'[i] # steaming_task_runs[j])
            => /\ steaming_task_runs = <<>>
               /\ lg_pending' # lg_pending]_vars
    /\ [](lg_pc \in {"batch", "done"}
            => /\ steaming_task_runs = <<>>
               /\ \A n \in TaskRunNames \ Discovered(lg_pending) :
                    lg_streams[n] = <<>>)

\* the first batch held one task run, whose log was yielded to its end
\* before the task run of the second batch joined the pool
C37_Witness ==
    /\ lg_pc = "round"
    /\ lg_pending = <<>>
    /\ Len(lg_out) = MaxLogLines
    /\ \A i \in 1..Len(lg_out) : lg_out[i][1] = PipelineTaskName(1)
    /\ Len(steaming_task_runs) = 1
    /\ steaming_task_runs[1].stream = 2
    /\ Len(lg_streams[2]) = MaxLogLines

\* ------------------------------------------ PipelineRun.get_error_message
\* step['terminated']['message']: text that is no JSON, JSON that is no
\* list of objects, or a list whose entries have the key 'task_result',
\* another key, or no member 'key' at all
TerminationMessages ==
    [json : {"invalid", "scalar"}, entries : {<<>>}]
    \cup [json : {"list"},
          entries : {<<>>, <<"task_result">>, <<"other">>, <<"no_key">>,
                     <<"other", "task_result">>, <<"no_key", "task_result">>,
                     <<"task_result", "no_key">>}]

NoTerminationMessage == [json : {"absent"}, entries : {<<>>}]

\* a step of a task run: still running, or terminated with an exit code
\* and with or without a message
StepStates ==
    [terminated : {FALSE}, exitCode : {0}, message : NoTerminationMessage]
    \cup [terminated : {TRUE}, exitCode : {0},
          message : {[json |-> "list", entries |-> <<"task_result">>]}]
    \cup [terminated : {TRUE}, exitCode : {1},
          message : NoTerminationMessage \cup TerminationMessages]

\* status.steps of a task run: absent, or a list of steps
StepLists ==
    {[present |-> FALSE, list |-> <<>>], [present |-> TRUE, list |-> <<>>]}
    \cup { [present |-> TRUE, list |-> <<s>>] : s \in StepStates }
    \cup { [present |-> TRUE, list |-> <<s, t>>] :
             s \in { x \in StepStates : x.message.json = "invalid" },
             t \in { x \in StepStates :
                       x.message.entries = <<"task_result">> } }

\* the task runs of a snapshot, in the order of the document; the start
\* times rise or fall along it
ErrorTaskRuns ==
    SeqsUpTo([reason : {"Succeeded", "Failed"}, steps : StepLists],
             MaxTaskRuns)

ErrorSnapshots ==
    {NoRun}
    \cup [exists : {TRUE}, plugins_metadata : {FALSE},
          plugin_errors : {<<>>}, listed : BOOLEAN, ascending : BOOLEAN,
          taskRuns : {<<>>}]
    \cup [exists : {TRUE}, plugins_metadata : BOOLEAN,
          plugin_errors : {<<>>}, listed : {TRUE}, ascending : BOOLEAN,
          taskRuns : ErrorTaskRuns]
    \cup [exists : {TRUE}, plugins_metadata : {TRUE},
          plugin_errors : {<<"plugin">>}, listed : {TRUE},
          ascending : BOOLEAN, taskRuns : ErrorTaskRuns]

\* data['status']['taskRuns'] as documents: name, start time, pipeline task
\* name, the reason of the first condition and the steps
TaskRunDocs(data) ==
    [i \in 1..Len(data.taskRuns) |->
       [name |-> i,
        startTime |-> IF data.ascending THEN i
                      ELSE Len(data.taskRuns) + 1 - i,
        pipelineTaskName |-> PipelineTaskName(i),
        reason |-> data.taskRuns[i].reason,
        steps |-> data.taskRuns[i].steps]]

\* lines 56-59: sorted() by status.startTime, which is stable
RECURSIVE InsertByStartTime(_, _)
InsertByStartTime(sorted, x) ==
    IF sorted = <<>> THEN <<x>>
    ELSE IF x.startTime < Head(sorted).startTime THEN <<x>> \o sorted
    ELSE <<Head(sorted)>> \o InsertByStartTime(Tail(sorted), x)

RECURSIVE get_sorted_task_runs(_)
get_sorted_task_runs(task_runs) ==
    IF task_runs = <<>> THEN <<>>
    ELSE InsertByStartTime(
           get_sorted_task_runs(SubSeq(task_runs, 1, Len(task_runs) - 1)),
           task_runs[Len(task_runs)])

\* lines 529-535: the entries of a message, up to the one that raises
RECURSIVE TaskResults(_, _)
TaskResults(task_name, entries) ==
    IF entries = <<>> THEN <<>>
    ELSE IF Head(entries) = "no_key" THEN <<>>
    ELSE IF Head(entries) = "task_result"
      THEN <<<<"Error in", task_name, "value">>>>
             \o TaskResults(task_name, Tail(entries))
    ELSE TaskResults(task_name, Tail(entries))

\* lines 521-535: what one step adds to err_message
StepError(task_name, step) ==
    IF ~step.terminated THEN <<>>
    ELSE IF step.exitCode = 0 THEN <<>>
    ELSE IF step.message.json = "absent" THEN <<>>
    ELSE IF step.message.json \in {"invalid", "scalar"} THEN <<>>
    ELSE TaskResults(task_name, step.message.entries)

RECURSIVE StepErrors(_, _)
StepErrors(task_name, steps) ==
    IF steps = <<>> THEN <<>>
    ELSE StepError(task_name, Head(steps))
           \o StepErrors(task_name, Tail(steps))

\* lines 514-535: what the task runs add to err_message
RECURSIVE TaskErrors(_)
TaskErrors(sorted) ==
    IF sorted = <<>> THEN <<>>
    ELSE LET stats == Head(sorted)
             own == IF stats.reason = "Succeeded" THEN <<>>
                    ELSE IF ~stats.steps.present THEN <<>>
                    ELSE StepErrors(stats.pipelineTaskName, stats.steps.list)
         IN  own \o TaskErrors(Tail(sorted))

\* lines 537-538
ErrMessageAsIs(err_message) == err_message

ErrMessageOrGeneric(err_message) ==
    IF err_message = <<>> THEN <<"pipeline run failed;">> ELSE err_message

\* lines 491-540
get_error_message(data) ==
    IF ~data.exists THEN NoMessage
    ELSE LET plugin_errors ==
                 IF data.plugins_metadata THEN data.plugin_errors ELSE <<>>
             from_plugins ==
                 [i \in 1..Len(plugin_errors) |->
                    <<"Error in plugin", plugin_errors[i]>>]
             task_runs_status ==
                 IF data.listed THEN TaskRunDocs(data) ELSE <<>>
             err_message ==
                 from_plugins
                   \o TaskErrors(get_sorted_task_runs(task_runs_status))
         IN  [none |-> FALSE, err_message |-> ErrMessageOrGeneric(err_message)]

ErrorInit ==
    /\ WatchIdle /\ StartIdle /\ TaskRunsIdle /\ FailedIdle /\ PatchIdle
    /\ OpenshiftIdle /\ StreamIdle /\ LogsIdle /\ QueryIdle
    /\ WatchedStartIdle /\ PodIdle /\ FinishIdle
    /\ em_pc = "call"
    /\ em_data \in ErrorSnapshots
    /\ em_result = NoMessage

GetErrorMessage ==
    /\ em_pc = "call"
    /\ em_result' = get_error_message(em_data)
    /\ em_pc' = "done"
    /\ UNCHANGED em_data
    /\ UNCHANGED OutsideError

ErrorNext == GetErrorMessage

SpecError == ErrorInit /\ [][ErrorNext]_vars

\* ---------------------------------- PipelineRun.get_error_message: claims
\* a step from which an error can be extracted: terminated with a non-zero
\* exit code and a message that is a list with a task_result entry
HasTaskResult(step) ==
    /\ step.terminated
    /\ step.exitCode # 0
    /\ step.message.json = "list"
    /\ \E i \in 1..Len(step.message.entries) :
         step.message.entries[i] = "task_result"

NothingToExtract(data) ==
    /\ ~(data.plugins_metadata /\ data.plugin_errors # <<>>)
    /\ \A i \in 1..Len(data.taskRuns) :
         \/ ~data.listed
         \/ data.taskRuns[i].reason = "Succeeded"
         \/ ~data.taskRuns[i].steps.present
         \/ \A k \in 1..Len(data.taskRuns[i].steps.list) :
              ~HasTaskResult(data.taskRuns[i].steps.list[k])

\* C17: for a run that exists get_error_message returns a string that is
\* not empty; when the annotations hold no plugin errors and no step of a
\* task run that did not succeed ended with a non-zero exit code and a
\* task_result message, it returns "pipeline run failed;".
C17_ErrorMessageNeverEmpty ==
    (em_pc = "done" /\ em_data.exists)
       => /\ ~em_result.none
          /\ em_result.err_message # <<>>
          /\ NothingToExtract(em_data)
               => em_result.err_message = <<"pipeline run failed;">>

C17_Witness ==
    /\ em_pc = "done"
    /\ em_data.exists
    /\ NothingToExtract(em_data)
    /\ Len(em_data.taskRuns) = 2
    /\ em_data.taskRuns[1].reason = "Succeeded"
    /\ em_data.taskRuns[2].reason = "Failed"
    /\ em_data.taskRuns[2].steps.present
    /\ Len(em_data.taskRuns[2].steps.list) = 1
    /\ em_data.taskRuns[2].steps.list[1].message.json = "invalid"
    /\ em_result.err_message = <<"pipeline run failed;">>

\* ------------------------- has_succeeded, has_not_finished, was_cancelled
\* changes of the run on the cluster during one call
MaxRunChanges == 1

\* the reasons of a pipeline run's condition: those the code names, and
\* Tekton's "Completed" of a run that succeeded with skipped tasks
RunReasons == Reasons \cup {"Completed"}

\* what get_info returns: None for a run that does not exist, otherwise a
\* document with the first condition's status and reason
RunDocs ==
    {NoDoc} \cup [exists : {TRUE}, status : {"True", "False", "Unknown"},
                  reason : RunReasons]

\* lines 649-663: the properties; None when there is no data
status_reason(data) == IF ~data.exists THEN "None" ELSE data.reason

status_status(data) == IF ~data.exists THEN "None" ELSE data.status

\* the reads each method makes, in order: has_succeeded reads status_reason
\* and then self.data for its log line; has_not_finished reads status_status
\* and, when that is 'Unknown', status_reason
FirstRead(op) ==
    IF op = "has_not_finished" THEN "status_status" ELSE "status_reason"

NextRead(op, at, reads) ==
    IF op = "has_succeeded" /\ at = "status_reason" THEN "data"
    ELSE IF /\ op = "has_not_finished"
            /\ at = "status_status"
            /\ status_status(reads[1]) = "Unknown" THEN "status_reason"
    ELSE "done"

Bool(b) == IF b THEN "True" ELSE "False"

\* lines 570-579: the value returned, from what was read
QueryResult(op, reads) ==
    IF op = "has_succeeded"
      THEN Bool(status_reason(reads[1]) = "Succeeded")
    ELSE IF op = "was_cancelled"
      THEN Bool(status_reason(reads[1]) = "PipelineRunCancelled")
    ELSE IF status_status(reads[1]) # "Unknown" THEN "False"
    ELSE Bool(status_reason(reads[2]) # "PipelineRunCancelled")

QueryInit ==
    /\ WatchIdle /\ StartIdle /\ TaskRunsIdle /\ FailedIdle /\ PatchIdle
    /\ OpenshiftIdle /\ StreamIdle /\ LogsIdle /\ ErrorIdle
    /\ WatchedStartIdle /\ PodIdle /\ FinishIdle
    /\ cq_cluster \in RunDocs
    /\ cq_history = <<cq_cluster>>
    /\ cq_op \in {"has_succeeded", "has_not_finished", "was_cancelled"}
    /\ cq_pc = FirstRead(cq_op)
    /\ cq_reads = <<>>
    /\ cq_result = "none"

\* lines 378-381: one read of self.data, a fresh GET of the run
QueryRead ==
    /\ cq_pc \notin {"idle", "done"}
    /\ cq_reads' = Append(cq_reads, cq_cluster)
    /\ cq_pc' = NextRead(cq_op, cq_pc, cq_reads')
    /\ cq_result' = IF cq_pc' = "done" THEN QueryResult(cq_op, cq_reads')
                    ELSE cq_result
    /\ UNCHANGED <<cq_cluster, cq_history, cq_op>>
    /\ UNCHANGED OutsideQuery

\* the run changes on the cluster while the call is under way
RunChange ==
    /\ cq_pc \notin {"idle", "done"}
    /\ cq_cluster.exists
    /\ Len(cq_history) <= MaxRunChanges
    /\ \E doc \in RunDocs : /\ doc.exists
                            /\ doc # cq_cluster
                            /\ cq_cluster' = doc
                            /\ cq_history' = Append(cq_history, doc)
    /\ UNCHANGED <<cq_op, cq_pc, cq_reads, cq_result>>
    /\ UNCHANGED OutsideQuery

QueryNext == QueryRead \/ RunChange

SpecQuery == QueryInit /\ [][QueryNext]_vars

\* -------------------------------------------------- has_succeeded: claims
\* C20: has_succeeded returns true when the first condition of the run it
\* read has status "True", and false when it has status "False" or
\* "Unknown".
C20_SucceededIffStatusTrue ==
    (cq_op = "has_succeeded" /\ cq_pc = "done" /\ cq_reads[1].exists)
       => /\ cq_reads[1].status = "True" => cq_result = "True"
          /\ cq_reads[1].status \in {"False", "Unknown"}
               => cq_result = "False"

\* ----------------------------------------------- has_not_finished: claims
\* the classification of one snapshot: still running and not cancelled
NotFinished(doc) ==
    /\ doc.exists
    /\ doc.status = "Unknown"
    /\ doc.reason # "PipelineRunCancelled"

\* C29: whatever the run does on the cluster during the call, what
\* has_not_finished returns is the classification of one snapshot of the run
\* that existed at some moment of the call.
C29_NotFinishedOfOneSnapshot ==
    (cq_op = "has_not_finished" /\ cq_pc = "done")
       => \E i \in 1..Len(cq_history) :
             cq_result = Bool(NotFinished(cq_history[i]))

\* ------------------------------------------ Pod.get_logs(follow / wait)
\* containers a pod declares
MaxContainers == 2
\* log GETs and lines of one get_logs call, all containers together
MaxPodEvents == 4

\* pod['status']['phase'] of a watched pod; "absent" when a key is missing
PodPhases == {"absent", "Pending", "Unknown", "Running", "Succeeded", "Failed"}

\* lines 954-964: the body of the loop of Pod.wait_for_start for one pod
PodStartStep(phase) ==
    IF phase = "absent" THEN "continue"               \* KeyError
    ELSE IF phase \in {"Running", "Succeeded", "Failed"} THEN "return"
    ELSE "continue"

\* line 881: the for loop takes the containers in the order of the list
NextContainerSkipping(i, n) ==
    IF i + 1 < n THEN [pc |-> "streaming", container |-> i + 2]
    ELSE [pc |-> "done", container |-> i]

NextContainer(i, n) ==
    IF i < n THEN [pc |-> "streaming", container |-> i + 1]
    ELSE [pc |-> "done", container |-> i]

\* the idle times a connection can end with: below the threshold, at the
\* threshold and above it
PodIdleTimes == {0, min_idle_timeout * TicksPerSecond,
                 MaxIdleSecs * TicksPerSecond}

\* line 893: every call of _stream_logs begins with kwargs = {'follow': True}
KeptKwargs(since) == since

FreshKwargs(since) == <<>>

\* lines 881-882 and 893: the call of _stream_logs for the next container,
\* if there is one
EnterContainer(i, n) ==
    /\ pod_pc' = NextContainer(i, n).pc
    /\ pod_container' = NextContainer(i, n).container
    /\ pod_kwargs' = IF NextContainer(i, n).pc = "streaming"
                       THEN FreshKwargs(pod_kwargs) ELSE pod_kwargs

PodInit ==
    /\ WatchIdle /\ StartIdle /\ TaskRunsIdle /\ FailedIdle /\ PatchIdle
    /\ OpenshiftIdle /\ StreamIdle /\ LogsIdle /\ ErrorIdle /\ QueryIdle
    /\ WatchedStartIdle /\ FinishIdle
    /\ pod_pc = "waiting"
    /\ pod_containers \in 0..MaxContainers
    /\ pod_phases = <<>>
    /\ pod_container = 0
    /\ pod_conn = "closed"
    /\ pod_log = <<>>
    /\ pod_kwargs = <<>>
    /\ pod_gets = <<>>

\* lines 880-881 and 951-961: the watch yields a pod to wait_for_start;
\* when wait_for_start returns, the for loop over the containers begins
PodObserve ==
    /\ pod_pc = "waiting"
    /\ Len(pod_phases) < MaxWatched
    /\ \E phase \in PodPhases :
         /\ pod_phases' = Append(pod_phases, phase)
         /\ IF PodStartStep(phase) = "return"
              THEN EnterContainer(0, pod_containers)
              ELSE UNCHANGED <<pod_pc, pod_container, pod_kwargs>>
    /\ UNCHANGED <<pod_containers, pod_conn, pod_log, pod_gets>>
    /\ UNCHANGED OutsidePod

\* lines 880-881 and 951: the watch ends, so that wait_for_start falls out
\* of its loop and returns None, which _get_logs_stream does not look at;
\* or the watch raises
PodWatchOver ==
    /\ pod_pc = "waiting"
    /\ \E how \in {"ended", "raised"} :
         IF how = "raised"
           THEN /\ pod_pc' = "raised"
                /\ UNCHANGED <<pod_container, pod_kwargs>>
           ELSE EnterContainer(0, pod_containers)
    /\ UNCHANGED <<pod_containers, pod_phases, pod_conn, pod_log, pod_gets>>
    /\ UNCHANGED OutsidePod

\* lines 904-916: a pass of the while loop of _stream_logs makes its GET
PodRequest ==
    /\ pod_pc = "streaming"
    /\ pod_conn = "closed"
    /\ Len(pod_log) < MaxPodEvents
    /\ pod_log' = Append(pod_log, [kind |-> "request",
                                   container |-> pod_container])
    /\ pod_gets' = Append(pod_gets, [container |-> pod_container,
                                     since |-> pod_kwargs])
    /\ pod_conn' = "open"
    /\ UNCHANGED <<pod_pc, pod_containers, pod_phases, pod_container,
                   pod_kwargs>>
    /\ UNCHANGED OutsidePod

\* lines 918-920 and 882: a line of the container's log is yielded on
PodLine ==
    /\ pod_pc = "streaming"
    /\ pod_conn = "open"
    /\ Len(pod_log) < MaxPodEvents
    /\ pod_log' = Append(pod_log, [kind |-> "line",
                                   container |-> pod_container])
    /\ UNCHANGED <<pod_pc, pod_containers, pod_phases, pod_container,
                   pod_conn, pod_kwargs, pod_gets>>
    /\ UNCHANGED OutsidePod

\* lines 930-947 and 881: the GET or the stream ends; the exception is
\* raised, or the idle time decides between the end of this container's
\* stream, after which the next container is taken, and another pass
PodDisconnect ==
    /\ pod_pc = "streaming"
    /\ pod_conn = "open"
    /\ \E exc \in TransportExc \cup {OtherOsbsExc, ResponseExc, CleanEnd},
          idle \in PodIdleTimes :
         IF StreamRaises(exc)
           THEN /\ pod_pc' = "raised"
                /\ UNCHANGED <<pod_container, pod_kwargs>>
         ELSE IF GivesUp(IdleTime(idle, 0))
           THEN EnterContainer(pod_container, pod_containers)
         ELSE /\ pod_kwargs' = <<SinceSeconds(IdleTime(idle, 0))>>
              /\ UNCHANGED <<pod_pc, pod_container>>
    /\ pod_conn' = "closed"
    /\ UNCHANGED <<pod_containers, pod_phases, pod_log, pod_gets>>
    /\ UNCHANGED OutsidePod

PodNext ==
    \/ PodObserve
    \/ PodWatchOver
    \/ PodRequest
    \/ PodLine
    \/ PodDisconnect

SpecPod == PodInit /\ [][PodNext]_vars

\* ---------------------------------- Pod.get_logs(follow / wait): claims
\* the containers for which a GET was made or a line yielded
PodContainersIn(log) == { log[k].container : k \in 1..Len(log) }

\* C25: the containers are streamed one after the other in the order in
\* which they are declared: along the log of GETs and lines the container
\* never goes back and none is left out, so that everything of container i
\* precedes everything of container i+1; each GET and each line belongs to
\* the container whose stream is running, and the next container is taken
\* only when that stream has ended, with its connection closed.
C25_ContainersInDeclaredOrder ==
    /\ [](\A j, k \in 1..Len(pod_log) :
            j < k => pod_log[j].container <= pod_log[k].container)
    /\ [](PodContainersIn(pod_log) \subseteq 1..pod_container)
    /\ [](\A c \in 1..pod_container - 1 : c \in PodContainersIn(pod_log))
    /\ [](pod_container <= pod_containers)
    /\ [][Len(pod_log') > Len(pod_log)
            => /\ pod_log'[Len(pod_log')].container = pod_container
               /\ pod_container' = pod_container]_vars
    /\ [][(pod_container' # pod_container /\ pod_container > 0)
            => /\ pod_container' = pod_container + 1
               /\ pod_conn = "open"
               /\ pod_conn' = "closed"
               /\ pod_log' = pod_log]_vars

\* two containers, the first streamed over two connections
C25_Witness ==
    /\ pod_pc = "done"
    /\ pod_containers = 2
    /\ Len(pod_log) = 4
    /\ pod_log[1] = [kind |-> "request", container |-> 1]
    /\ pod_log[2] = [kind |-> "request", container |-> 1]
    /\ pod_log[3] = [kind |-> "request", container |-> 2]
    /\ pod_log[4] = [kind |-> "line", container |-> 2]

\* C26: no log GET is made before the watch has yielded the pod in phase
\* Running, Succeeded or Failed.
C26_NoLogRequestBeforePodStarted ==
    pod_log # <<>>
       => \E i \in 1..Len(pod_phases) :
             pod_phases[i] \in {"Running", "Succeeded", "Failed"}

\* C32: the log cursor belongs to one container's stream. The first GET for
\* each container carries no sinceSeconds and every further GET for the
\* same container carries one, a number of seconds; each GET carries the
\* cursor of the running stream; the cursor is given a value only when a
\* connection of the running stream has closed, and it is unset again
\* whenever the next container is taken.
C32_CursorScopedToOneContainer ==
    /\ [](\A k \in 1..Len(pod_gets) :
            pod_gets[k].since = <<>>
              <=> (k = 1 \/ pod_gets[k - 1].container # pod_gets[k].container))
    /\ [][Len(pod_gets') > Len(pod_gets)
            => pod_gets'[Len(pod_gets')] = [container |-> pod_container,
                                            since |-> pod_kwargs]]_vars
    /\ [](\A k \in 1..Len(pod_gets) : pod_gets[k].since \in Seq(Nat))
    /\ [][pod_container' # pod_container => pod_kwargs' = <<>>]_vars
    /\ [][pod_kwargs' \notin {pod_kwargs, <<>>}
            => /\ pod_container' = pod_container
               /\ pod_conn = "open"
               /\ pod_conn' = "closed"]_vars

\* two containers, each streamed over two connections, with cursors that
\* differ
C32_Witness ==
    pod_gets = << [container |-> 1, since |-> <<>>],
                  [container |-> 1, since |-> <<min_idle_timeout>>],
                  [container |-> 2, since |-> <<>>],
                  [container |-> 2, since |-> <<min_idle_timeout - 1>>] >>

\* ------------------------------------------- PipelineRun.wait_for_finish
\* seconds between two polls, the hours the polls go on for, and the number
\* of polls that makes
WAIT_RETRY_SECS == 5
WAIT_RETRY_HOURS == 5
WAIT_RETRY == (WAIT_RETRY_HOURS * 3600) \div WAIT_RETRY_SECS

\* what get_info returns to has_not_finished during the wait: no run, a run
\* under way, a cancelled run not yet resolved, a resolved run
FinishDocs ==
    { NoDoc,
      [exists |-> TRUE, status |-> "Unknown", reason |-> "Running"],
      [exists |-> TRUE, status |-> "Unknown",
       reason |-> "PipelineRunCancelled"],
      [exists |-> TRUE, status |-> "True", reason |-> "Succeeded"],
      [exists |-> TRUE, status |-> "False", reason |-> "Failed"] }

\* lines 575-576: the reads of one has_not_finished call, when self.data
\* returns first and then second
HasNotFinishedReads(first, second) ==
    IF NextRead("has_not_finished", "status_status", <<first>>)
          = "status_reason"
      THEN <<first, second>>
      ELSE <<first>>

\* line 632: for _ in range(WAIT_RETRY), after n passes that did not break
AfterPass(n) == IF n < WAIT_RETRY THEN "polling" ELSE "returned"

FinishInit ==
    /\ WatchIdle /\ StartIdle /\ TaskRunsIdle /\ FailedIdle /\ PatchIdle
    /\ OpenshiftIdle /\ StreamIdle /\ LogsIdle /\ ErrorIdle /\ QueryIdle
    /\ WatchedStartIdle /\ PodIdle
    /\ wf_pc = AfterPass(0)
    /\ wf_polls = 0
    /\ wf_slept = 0
    /\ wf_last = NoDoc
    /\ wf_exit = "none"

\* lines 632-639: one pass of the for loop: has_not_finished is called, and
\* the loop sleeps and goes on, or breaks; after the last pass the loop is
\* over and the function returns
FinishPoll ==
    /\ wf_pc = "polling"
    /\ \E first \in FinishDocs, second \in FinishDocs :
         LET reads == HasNotFinishedReads(first, second)
         IN  /\ wf_last' = reads[Len(reads)]
             /\ wf_polls' = wf_polls + 1
             /\ IF QueryResult("has_not_finished", reads) = "True"
                  THEN /\ wf_slept' = wf_slept + WAIT_RETRY_SECS
                       /\ wf_pc' = AfterPass(wf_polls')
                       /\ wf_exit' = IF wf_pc' = "returned" THEN "exhausted"
                                     ELSE wf_exit
                  ELSE /\ wf_slept' = wf_slept
                       /\ wf_pc' = "returned"
                       /\ wf_exit' = "break"
    /\ UNCHANGED OutsideFinish

\* lines 378-381 and 484-489: the GET that self.data makes raises, and the
\* exception leaves has_not_finished and wait_for_finish
FinishRaise ==
    /\ wf_pc = "polling"
    /\ wf_pc' = "raised"
    /\ UNCHANGED <<wf_polls, wf_slept, wf_last, wf_exit>>
    /\ UNCHANGED OutsideFinish

FinishNext == FinishPoll \/ FinishRaise

SpecFinish == FinishInit /\ [][FinishNext]_vars

\* ----------------------------------- PipelineRun.wait_for_finish: claims
\* a status that is not Unknown, or a cancelled run
Finished(doc) ==
    ~(status_status(doc) = "Unknown"
        /\ status_reason(doc) # "PipelineRunCancelled")

\* C35: wait_for_finish polls has_not_finished every WAIT_RETRY_SECS
\* seconds, and whenever it returns the last status it read was a finished
\* one: not status Unknown with a reason other than PipelineRunCancelled.
C35_ReturnsOnlyWhenFinished ==
    /\ wf_pc \in {"polling", "returned"}
         => wf_slept = WAIT_RETRY_SECS * (wf_polls -
                          (IF wf_exit = "break" THEN 1 ELSE 0))
    /\ wf_pc = "returned" => Finished(wf_last)

=============================================================================
